---- MODULE Spec2Model ----
(***************************************************************************)
(* CodeSniff: the indexing pipeline (Indexer), the embedder's batch call,  *)
(* the three stores it correlates by embedding id (vector index, metadata  *)
(* store, lexical index) and the read path of SearchEngine.                *)
(***************************************************************************)
EXTENDS Integers, Sequences, FiniteSets, TLC

(***************************************************************************)
(* Bounds of the model.                                                    *)
(***************************************************************************)
\* an index call starts only while the vector index can stay within this size
MaxVectors == 4
\* clear_index is started only while fewer clears than this have happened
MaxClears == 1
\* largest batch size and longest text list tried on batch_generate alone
MaxBatch == 2
MaxTexts == 3

None == "None"
\* parent_class=None: no enclosing class
NoClass == <<>>

(***************************************************************************)
(* Source files on disk.  A Python file is given by its syntax tree: a      *)
(* sequence of nodes, node 1 the module, each node with its type, name,    *)
(* line span and children (a class or function body is a "block" child,    *)
(* the node found by child_by_field_name('body')).                          *)
(***************************************************************************)
Node(ty, nm, s, e, cs) ==
    [type |-> ty, name |-> nm, start_line |-> s, end_line |-> e, children |-> cs]

\* def f(): ...   class A: def m(self): ...
TreeFlat ==
    << Node("module", <<>>, 1, 4, <<2, 4>>),
       Node("function_definition", <<"f">>, 1, 2, <<3>>),
       Node("block", <<>>, 2, 2, <<>>),
       Node("class_definition", <<"A">>, 3, 4, <<5>>),
       Node("block", <<>>, 4, 4, <<6>>),
       Node("function_definition", <<"m">>, 4, 4, <<7>>),
       Node("block", <<>>, 4, 4, <<>>) >>

\* class A: class B: def m(self): ...
TreeNested ==
    << Node("module", <<>>, 1, 3, <<2>>),
       Node("class_definition", <<"A">>, 1, 3, <<3>>),
       Node("block", <<>>, 2, 3, <<4>>),
       Node("class_definition", <<"B">>, 2, 3, <<5>>),
       Node("block", <<>>, 3, 3, <<6>>),
       Node("function_definition", <<"m">>, 3, 3, <<7>>),
       Node("block", <<>>, 3, 3, <<>>) >>

\* def f(): def g(): ...
TreeInner ==
    << Node("module", <<>>, 1, 2, <<2>>),
       Node("function_definition", <<"f">>, 1, 2, <<3>>),
       Node("block", <<>>, 2, 2, <<4>>),
       Node("function_definition", <<"f", "g">>, 2, 2, <<5>>),
       Node("block", <<>>, 2, 2, <<>>) >>

\* a file with no definitions
TreeEmpty == << Node("module", <<>>, 1, 1, <<>>) >>

\* class A: def get(self): ...   class B: def get(self): ...
TreeTwins ==
    << Node("module", <<>>, 1, 4, <<2, 6>>),
       Node("class_definition", <<"A">>, 1, 2, <<3>>),
       Node("block", <<>>, 2, 2, <<4>>),
       Node("function_definition", <<"g", "e", "t">>, 2, 2, <<5>>),
       Node("block", <<>>, 2, 2, <<>>),
       Node("class_definition", <<"B">>, 3, 4, <<7>>),
       Node("block", <<>>, 4, 4, <<8>>),
       Node("function_definition", <<"g", "e", "t">>, 4, 4, <<9>>),
       Node("block", <<>>, 4, 4, <<>>) >>

\* the files: path -> suffix, whether open()/read() succeeds, and the tree
Files ==
    [ flat   |-> [ext |-> ".py",  readable |-> TRUE,  tree |-> TreeFlat],
      nested |-> [ext |-> ".py",  readable |-> TRUE,  tree |-> TreeNested],
      inner  |-> [ext |-> ".py",  readable |-> TRUE,  tree |-> TreeInner],
      empty  |-> [ext |-> ".py",  readable |-> TRUE,  tree |-> TreeEmpty],
      twins  |-> [ext |-> ".py",  readable |-> TRUE,  tree |-> TreeTwins],
      bad    |-> [ext |-> ".py",  readable |-> FALSE, tree |-> TreeEmpty],
      notes  |-> [ext |-> ".txt", readable |-> TRUE,  tree |-> TreeEmpty] ]

\* the files indexed one by one; twins is indexed where the lookups by name
\* are followed (SpecRead)
Paths == DOMAIN Files \ {"twins"}

python_extensions == {".py"}
js_extensions == {".js", ".jsx", ".ts", ".tsx"}
all_extensions == python_extensions \cup js_extensions

(***************************************************************************)
(* CodeParser (parser.py).                                                 *)
(***************************************************************************)
\* _parse_function_node: name, span (code is the text of that span)
_parse_function_node(tree, n) ==
    [name |-> tree[n].name, start_line |-> tree[n].start_line,
     end_line |-> tree[n].end_line, node |-> n]

RECURSIVE _extract_functions(_, _, _), ExtractFunctionsOfChildren(_, _, _)
\* the loop over node.children of _extract_functions
ExtractFunctionsOfChildren(tree, cs, parent_class) ==
    IF cs = <<>> THEN <<>>
    ELSE LET child == Head(cs)
             here == IF parent_class = NoClass /\ tree[child].type = "class_definition"
                     THEN <<>>
                     ELSE _extract_functions(tree, child, parent_class)
         IN  here \o ExtractFunctionsOfChildren(tree, Tail(cs), parent_class)

_extract_functions(tree, n, parent_class) ==
    (IF tree[n].type = "function_definition"
     THEN << _parse_function_node(tree, n) >> ELSE <<>>)
    \o ExtractFunctionsOfChildren(tree, tree[n].children, parent_class)

\* child_by_field_name('body') of a class or function node
BodyOf(tree, n) ==
    LET bs == {i \in 1..Len(tree[n].children) : tree[tree[n].children[i]].type = "block"}
    IN  IF bs = {} THEN 0 ELSE tree[n].children[CHOOSE i \in bs : \A j \in bs : i <= j]

_parse_class_node(tree, n) ==
    [name |-> tree[n].name, start_line |-> tree[n].start_line,
     end_line |-> tree[n].end_line, node |-> n,
     methods |-> IF BodyOf(tree, n) = 0 THEN <<>>
                 ELSE _extract_functions(tree, BodyOf(tree, n), tree[n].name)]

RECURSIVE _extract_classes(_, _), ExtractClassesOfChildren(_, _)
ExtractClassesOfChildren(tree, cs) ==
    IF cs = <<>> THEN <<>>
    ELSE _extract_classes(tree, Head(cs)) \o ExtractClassesOfChildren(tree, Tail(cs))

_extract_classes(tree, n) ==
    (IF tree[n].type = "class_definition"
     THEN << _parse_class_node(tree, n) >> ELSE <<>>)
    \o ExtractClassesOfChildren(tree, tree[n].children)

\* CodeParser.parse_file: the ParsedFile, or no parsed file (ok = FALSE, Python's
\* None) when reading or parsing the file raises
parse_file(path) ==
    IF ~Files[path].readable
    THEN [ok |-> FALSE, functions |-> <<>>, classes |-> <<>>, total_lines |-> 0]
    ELSE [ok |-> TRUE,
          functions |-> _extract_functions(Files[path].tree, 1, NoClass),
          classes |-> _extract_classes(Files[path].tree, 1),
          total_lines |-> Files[path].tree[1].end_line]

(***************************************************************************)
(* Indexer._extract_python_symbols: the flattened list and the counters.   *)
(***************************************************************************)
\* one entry of symbols_to_index: {'type', 'data', 'parent_class'}
Sym(ty, d, parent) ==
    [type |-> ty, name |-> d.name, start_line |-> d.start_line,
     end_line |-> d.end_line, node |-> d.node, parent_class |-> parent]

RECURSIVE MethodSymbols(_, _), ClassSymbols(_), FunctionSymbols(_)
\* for func in parsed_file.functions
FunctionSymbols(fs) ==
    IF fs = <<>> THEN <<>>
    ELSE << Sym("function", Head(fs), NoClass) >> \o FunctionSymbols(Tail(fs))
\* for method in cls.methods
MethodSymbols(ms, cls) ==
    IF ms = <<>> THEN <<>>
    ELSE << Sym("method", Head(ms), cls) >> \o MethodSymbols(Tail(ms), cls)
\* for cls in parsed_file.classes
ClassSymbols(cs) ==
    IF cs = <<>> THEN <<>>
    ELSE << Sym("class", Head(cs), NoClass) >> \o MethodSymbols(Head(cs).methods, Head(cs).name)
         \o ClassSymbols(Tail(cs))

_extract_python_symbols(parsed_file) ==
    FunctionSymbols(parsed_file.functions) \o ClassSymbols(parsed_file.classes)

CountType(syms, ty) == Cardinality({i \in 1..Len(syms) : syms[i].type = ty})

(***************************************************************************)
(* CodeEmbedder (embedder.py).  A text is what is embedded; a vector is    *)
(* the model's embedding of one text or the zero vector of the fallback.   *)
(***************************************************************************)
Emb(text) == [kind |-> "emb", of |-> text]
ZeroVec == [kind |-> "zero", of |-> <<>>]
\* the placeholder batch_generate appends for a text it still has to compute
Placeholder == [kind |-> "placeholder", of |-> <<>>]

\* _process_batch: one vector per text of the batch; when the tokenizer or the
\* model raises, the except branch returns a zero vector for every text
_process_batch(codes, raises) ==
    [j \in 1..Len(codes) |-> IF raises THEN ZeroVec ELSE Emb(codes[j])]

\* first loop of batch_generate: cached vectors and placeholders, by position
\* (cache: the texts that have a readable cache file, with the vector in it)
CacheLookup(codes, cache) ==
    [i \in 1..Len(codes) |->
        IF codes[i] \in DOMAIN cache THEN cache[codes[i]] ELSE Placeholder]

RECURSIVE UncachedIndices(_, _, _)
\* uncached_indices, 1-based positions in codes, in order
UncachedIndices(codes, cache, i) ==
    IF i > Len(codes) THEN <<>>
    ELSE (IF codes[i] \in DOMAIN cache THEN <<>> ELSE <<i>>)
         \o UncachedIndices(codes, cache, i + 1)

\* the batch offset i dropped from the index: idx = uncached_indices[j]
StoreBatchNoOffset(embeddings, uncached_indices, i, batch_embeddings) ==
    [k \in 1..Len(embeddings) |->
        IF \E j \in 1..Len(batch_embeddings) : uncached_indices[j] = k
        THEN batch_embeddings[CHOOSE j \in 1..Len(batch_embeddings) :
                                  uncached_indices[j] = k]
        ELSE embeddings[k]]

\* embeddings[idx] = emb for every emb of the batch that starts at offset i
StoreBatch(embeddings, uncached_indices, i, batch_embeddings) ==
    [k \in 1..Len(embeddings) |->
        IF \E j \in 1..Len(batch_embeddings) : uncached_indices[i + j] = k
        THEN batch_embeddings[CHOOSE j \in 1..Len(batch_embeddings) :
                                  uncached_indices[i + j] = k]
        ELSE embeddings[k]]

RECURSIVE BatchLoop(_, _, _, _, _, _)
\* for i in range(0, len(uncached_codes), batch_size); failing: the offsets i
\* whose _process_batch call raises inside
BatchLoop(embeddings, uncached_indices, uncached_codes, batch_size, failing, i) ==
    IF i >= Len(uncached_codes) THEN embeddings
    ELSE LET hi == IF i + batch_size < Len(uncached_codes)
                   THEN i + batch_size ELSE Len(uncached_codes)
             batch == SubSeq(uncached_codes, i + 1, hi)
             batch_embeddings == _process_batch(batch, i \in failing)
         IN  BatchLoop(StoreBatch(embeddings, uncached_indices, i, batch_embeddings),
                       uncached_indices, uncached_codes, batch_size, failing,
                       i + batch_size)

batch_generate(codes, batch_size, cache, failing) ==
    LET uncached_indices == UncachedIndices(codes, cache, 1)
        uncached_codes == [k \in 1..Len(uncached_indices) |-> codes[uncached_indices[k]]]
    IN  BatchLoop(CacheLookup(codes, cache), uncached_indices, uncached_codes,
                  batch_size, failing, 0)

\* the cache files after batch_generate: every computed vector is written under
\* its text (the zero vectors of a failed batch included)
CacheAfter(codes, batch_size, cache, failing) ==
    LET out == batch_generate(codes, batch_size, cache, failing)
        new == {codes[i] : i \in 1..Len(codes)} \ DOMAIN cache
    IN  [t \in DOMAIN cache \cup new |->
            IF t \in DOMAIN cache THEN cache[t]
            ELSE out[CHOOSE i \in 1..Len(codes) :
                        codes[i] = t /\ \A j \in 1..Len(codes) : codes[j] = t => j <= i]]

(***************************************************************************)
(* TextSearchEngine (text_search.py).  A text is a sequence of characters, *)
(* a token a text too.                                                     *)
(***************************************************************************)
Alphabet == <<"a", "b", "c", "d", "e", "f", "g", "h", "i", "j", "k", "l", "m", "n", "o",
             "p", "q", "r", "s", "t", "u", "v", "w", "x", "y", "z">>
Capitals == <<"A", "B", "C", "D", "E", "F", "G", "H", "I", "J", "K", "L", "M", "N", "O",
             "P", "Q", "R", "S", "T", "U", "V", "W", "X", "Y", "Z">>
Digits == {"0", "1", "2", "3", "4", "5", "6", "7", "8", "9"}

Range(f) == {f[x] : x \in DOMAIN f}
LowerLetters == Range(Alphabet)
UpperLetters == Range(Capitals)

\* str.lower()
Lower(text) ==
    [i \in 1..Len(text) |->
        IF text[i] \in UpperLetters
        THEN Alphabet[CHOOSE k \in 1..Len(Capitals) : Capitals[k] = text[i]]
        ELSE text[i]]

\* str.startswith(prefix)
StartsWith(text, prefix) ==
    Len(prefix) <= Len(text) /\ SubSeq(text, 1, Len(prefix)) = prefix
\* str.endswith(suffix)
EndsWith(text, suffix) ==
    /\ Len(suffix) <= Len(text)
    /\ SubSeq(text, Len(text) - Len(suffix) + 1, Len(text)) = suffix

RECURSIVE Flatten(_, _, _)
\* the concatenation of pieces[lo], ..., pieces[hi]
Flatten(pieces, lo, hi) ==
    IF lo > hi THEN <<>>
    ELSE IF lo = hi THEN pieces[lo]
         ELSE LET mid == (lo + hi) \div 2
              IN  Flatten(pieces, lo, mid) \o Flatten(pieces, mid + 1, hi)

\* re.sub(r'([a-z])([A-Z])', r'\1 \2', text)
SplitCamel(text) ==
    Flatten([i \in 1..Len(text) |->
                IF /\ i < Len(text)
                   /\ text[i] \in LowerLetters
                   /\ text[i + 1] \in UpperLetters
                THEN <<text[i], " ">>
                ELSE <<text[i]>>],
            1, Len(text))

\* text.replace('_', ' ')
ReplaceUnderscores(text) == [i \in 1..Len(text) |-> IF text[i] = "_" THEN " " ELSE text[i]]

\* the last position of the longest run of characters of cls that starts at i
\* (i - 1 when there is none)
RunEnd(text, i, cls) ==
    CHOOSE j \in (i - 1)..Len(text) :
        /\ \A p \in i..j : text[p] \in cls
        /\ j = Len(text) \/ text[j + 1] \notin cls

\* re.findall(r'[a-z]+[0-9]*|[0-9]+', text).  In a scan from the left a match
\* starts at a letter that no letter precedes, and at a digit that neither a
\* letter nor a digit precedes; it takes the letters and then the digits that
\* follow.
FindAll(text) ==
    LET starts == {i \in 1..Len(text) :
                      \/ /\ text[i] \in LowerLetters
                         /\ i = 1 \/ text[i - 1] \notin LowerLetters
                      \/ /\ text[i] \in Digits
                         /\ i = 1 \/ text[i - 1] \notin (LowerLetters \cup Digits)}
        MatchAt(i) ==
            IF text[i] \in LowerLetters
            THEN SubSeq(text, i, RunEnd(text, RunEnd(text, i, LowerLetters) + 1, Digits))
            ELSE SubSeq(text, i, RunEnd(text, i, Digits))
        Nth(k) == CHOOSE i \in starts : Cardinality({j \in starts : j <= i}) = k
    IN  [k \in 1..Cardinality(starts) |-> MatchAt(Nth(k))]

\* self.stopwords
stopwords ==
    { <<"s", "e", "l", "f">>, <<"d", "e", "f">>, <<"c", "l", "a", "s", "s">>,
      <<"r", "e", "t", "u", "r", "n">>, <<"i", "f">>, <<"e", "l", "s", "e">>,
      <<"e", "l", "i", "f">>, <<"f", "o", "r">>, <<"w", "h", "i", "l", "e">>,
      <<"t", "r", "y">>, <<"e", "x", "c", "e", "p", "t">>,
      <<"f", "i", "n", "a", "l", "l", "y">>, <<"w", "i", "t", "h">>, <<"a", "s">>,
      <<"i", "m", "p", "o", "r", "t">>, <<"f", "r", "o", "m">>, <<"i", "n">>, <<"i", "s">>,
      <<"n", "o", "t">>, <<"a", "n", "d">>, <<"o", "r">>, <<"n", "o", "n", "e">>,
      <<"t", "r", "u", "e">>, <<"f", "a", "l", "s", "e">>, <<"t", "h", "e">>, <<"a">>,
      <<"a", "n">>, <<"o", "f">>, <<"t", "o">>, <<"t", "h", "a", "t">>,
      <<"t", "h", "i", "s">>, <<"i", "t">>, <<"b", "e">>, <<"a", "r", "e">> }

\* TextSearchEngine.tokenize
tokenize(text) ==
    LET Kept(token) == token \notin stopwords /\ Len(token) >= 2
    IN  SelectSeq(FindAll(ReplaceUnderscores(SplitCamel(Lower(text)))), Kept)

\* the suffixes of stem, in the order they are tried
suffixes ==
    << <<"t", "i", "o", "n">>, <<"s", "i", "o", "n">>, <<"m", "e", "n", "t">>,
       <<"n", "e", "s", "s">>, <<"a", "b", "l", "e">>, <<"i", "b", "l", "e">>,
       <<"i", "n", "g">>, <<"e", "d">>, <<"e", "r">>, <<"e", "s", "t">>, <<"l", "y">>,
       <<"e", "s">>, <<"s">> >>

\* TextSearchEngine.stem
stem(word) ==
    LET fits == {k \in 1..Len(suffixes) :
                    EndsWith(word, suffixes[k]) /\ Len(word) - Len(suffixes[k]) >= 3}
    IN  IF fits = {} THEN word
        ELSE LET k == CHOOSE k \in fits : \A j \in fits : k <= j
             IN  SubSeq(word, 1, Len(word) - Len(suffixes[k]))

\* self.synonyms, as the list of its entries
synonyms ==
    <<
       [key |-> <<"a", "u", "d", "i", "o">>,
        syns |-> <<<<"s", "o", "u", "n", "d">>, <<"w", "a", "v">>, <<"m", "p", "3">>,
                   <<"m", "u", "s", "i", "c">>, <<"s", "p", "e", "a", "k", "e", "r">>,
                   <<"v", "o", "l", "u", "m", "e">>>>],
       [key |-> <<"a", "n", "i", "m", "a", "t", "i", "o", "n">>,
        syns |-> <<<<"a", "n", "i", "m", "a", "t", "e">>,
                   <<"a", "n", "i", "m", "a", "t", "e", "d">>,
                   <<"a", "n", "i", "m", "a", "t", "i", "n", "g">>,
                   <<"m", "o", "t", "i", "o", "n">>,
                   <<"t", "r", "a", "n", "s", "i", "t", "i", "o", "n">>>>],
       [key |-> <<"a", "n", "i", "m", "a", "t", "e">>,
        syns |-> <<<<"a", "n", "i", "m", "a", "t", "i", "o", "n">>,
                   <<"a", "n", "i", "m", "a", "t", "e", "d">>,
                   <<"a", "n", "i", "m", "a", "t", "i", "n", "g">>,
                   <<"m", "o", "t", "i", "o", "n">>>>],
       [key |-> <<"d", "a", "t", "a", "b", "a", "s", "e">>,
        syns |-> <<<<"d", "b">>, <<"s", "q", "l">>, <<"s", "q", "l", "i", "t", "e">>,
                   <<"p", "o", "s", "t", "g", "r", "e", "s">>, <<"m", "y", "s", "q", "l">>,
                   <<"q", "u", "e", "r", "y">>>>],
       [key |-> <<"d", "b">>,
        syns |-> <<<<"d", "a", "t", "a", "b", "a", "s", "e">>, <<"s", "q", "l">>,
                   <<"s", "q", "l", "i", "t", "e">>>>],
       [key |-> <<"a", "u", "t", "h">>,
        syns |-> <<<<"a", "u", "t", "h", "e", "n", "t", "i", "c", "a", "t", "i", "o", "n">>,
                   <<"a", "u", "t", "h", "o", "r", "i", "z", "e">>,
                   <<"l", "o", "g", "i", "n">>,
                   <<"c", "r", "e", "d", "e", "n", "t", "i", "a", "l">>>>],
       [key |-> <<"a", "u", "t", "h", "e", "n", "t", "i", "c", "a", "t", "i", "o", "n">>,
        syns |-> <<<<"a", "u", "t", "h">>, <<"l", "o", "g", "i", "n">>,
                   <<"c", "r", "e", "d", "e", "n", "t", "i", "a", "l">>,
                   <<"p", "a", "s", "s", "w", "o", "r", "d">>, <<"u", "s", "e", "r">>>>],
       [key |-> <<"l", "o", "g", "i", "n">>,
        syns |-> <<<<"a", "u", "t", "h">>, <<"s", "i", "g", "n", "i", "n">>,
                   <<"a", "u", "t", "h", "e", "n", "t", "i", "c", "a", "t", "i", "o", "n">>>>],
       [key |-> <<"e", "r", "r", "o", "r">>,
        syns |-> <<<<"e", "x", "c", "e", "p", "t", "i", "o", "n">>, <<"f", "a", "i", "l">>,
                   <<"i", "n", "v", "a", "l", "i", "d">>,
                   <<"p", "r", "o", "b", "l", "e", "m">>>>],
       [key |-> <<"e", "x", "c", "e", "p", "t", "i", "o", "n">>,
        syns |-> <<<<"e", "r", "r", "o", "r">>, <<"r", "a", "i", "s", "e">>,
                   <<"c", "a", "t", "c", "h">>, <<"h", "a", "n", "d", "l", "e">>>>],
       [key |-> <<"c", "o", "n", "f", "i", "g">>,
        syns |-> <<<<"c", "o", "n", "f", "i", "g", "u", "r", "a", "t", "i", "o", "n">>,
                   <<"s", "e", "t", "t", "i", "n", "g", "s">>,
                   <<"o", "p", "t", "i", "o", "n", "s">>,
                   <<"p", "r", "e", "f", "e", "r", "e", "n", "c", "e", "s">>>>],
       [key |-> <<"c", "o", "n", "f", "i", "g", "u", "r", "a", "t", "i", "o", "n">>,
        syns |-> <<<<"c", "o", "n", "f", "i", "g">>,
                   <<"s", "e", "t", "t", "i", "n", "g", "s">>, <<"s", "e", "t", "u", "p">>>>],
       [key |-> <<"h", "t", "t", "p">>,
        syns |-> <<<<"r", "e", "q", "u", "e", "s", "t">>,
                   <<"r", "e", "s", "p", "o", "n", "s", "e">>, <<"a", "p", "i">>,
                   <<"r", "e", "s", "t">>, <<"w", "e", "b">>>>],
       [key |-> <<"a", "p", "i">>,
        syns |-> <<<<"e", "n", "d", "p", "o", "i", "n", "t">>, <<"r", "o", "u", "t", "e">>,
                   <<"h", "t", "t", "p">>, <<"r", "e", "s", "t">>>>],
       [key |-> <<"f", "i", "l", "e">>,
        syns |-> <<<<"p", "a", "t", "h">>, <<"d", "i", "r", "e", "c", "t", "o", "r", "y">>,
                   <<"f", "o", "l", "d", "e", "r">>, <<"i", "o">>>>],
       [key |-> <<"p", "a", "r", "s", "e">>,
        syns |-> <<<<"p", "a", "r", "s", "e", "r">>, <<"p", "a", "r", "s", "i", "n", "g">>,
                   <<"e", "x", "t", "r", "a", "c", "t">>,
                   <<"a", "n", "a", "l", "y", "z", "e">>>>],
       [key |-> <<"p", "a", "r", "s", "e", "r">>,
        syns |-> <<<<"p", "a", "r", "s", "e">>, <<"p", "a", "r", "s", "i", "n", "g">>,
                   <<"t", "o", "k", "e", "n", "i", "z", "e">>>>],
       [key |-> <<"t", "e", "s", "t">>,
        syns |-> <<<<"t", "e", "s", "t", "i", "n", "g">>,
                   <<"u", "n", "i", "t", "t", "e", "s", "t">>,
                   <<"p", "y", "t", "e", "s", "t">>, <<"s", "p", "e", "c">>>>],
       [key |-> <<"v", "a", "l", "i", "d">>,
        syns |-> <<<<"v", "a", "l", "i", "d", "a", "t", "e">>,
                   <<"v", "a", "l", "i", "d", "a", "t", "i", "o", "n">>,
                   <<"v", "a", "l", "i", "d", "a", "t", "o", "r">>,
                   <<"c", "h", "e", "c", "k">>>>],
       [key |-> <<"v", "a", "l", "i", "d", "a", "t", "e">>,
        syns |-> <<<<"v", "a", "l", "i", "d">>,
                   <<"v", "a", "l", "i", "d", "a", "t", "i", "o", "n">>,
                   <<"v", "a", "l", "i", "d", "a", "t", "o", "r">>,
                   <<"v", "e", "r", "i", "f", "y">>>>],
       [key |-> <<"c", "o", "n", "n", "e", "c", "t">>,
        syns |-> <<<<"c", "o", "n", "n", "e", "c", "t", "i", "o", "n">>,
                   <<"c", "o", "n", "n", "e", "c", "t", "e", "d">>,
                   <<"c", "o", "n", "n", "e", "c", "t", "i", "n", "g">>,
                   <<"l", "i", "n", "k">>>>],
       [key |-> <<"c", "o", "n", "n", "e", "c", "t", "i", "o", "n">>,
        syns |-> <<<<"c", "o", "n", "n", "e", "c", "t">>,
                   <<"c", "o", "n", "n", "e", "c", "t", "e", "d">>, <<"l", "i", "n", "k">>,
                   <<"s", "o", "c", "k", "e", "t">>>>],
       [key |-> <<"i", "n", "d", "e", "x">>,
        syns |-> <<<<"i", "n", "d", "e", "x", "e", "r">>,
                   <<"i", "n", "d", "e", "x", "i", "n", "g">>,
                   <<"i", "n", "d", "e", "x", "e", "d">>>>],
       [key |-> <<"i", "n", "d", "e", "x", "e", "r">>,
        syns |-> <<<<"i", "n", "d", "e", "x">>, <<"i", "n", "d", "e", "x", "i", "n", "g">>>>],
       [key |-> <<"s", "e", "a", "r", "c", "h">>,
        syns |-> <<<<"f", "i", "n", "d">>, <<"q", "u", "e", "r", "y">>,
                   <<"l", "o", "o", "k", "u", "p">>, <<"m", "a", "t", "c", "h">>>>],
       [key |-> <<"u", "s", "e", "r">>,
        syns |-> <<<<"a", "c", "c", "o", "u", "n", "t">>,
                   <<"p", "r", "o", "f", "i", "l", "e">>, <<"m", "e", "m", "b", "e", "r">>>>],
       [key |-> <<"c", "r", "e", "a", "t", "e">>,
        syns |-> <<<<"m", "a", "k", "e">>, <<"n", "e", "w">>, <<"a", "d", "d">>,
                   <<"i", "n", "s", "e", "r", "t">>,
                   <<"g", "e", "n", "e", "r", "a", "t", "e">>>>],
       [key |-> <<"d", "e", "l", "e", "t", "e">>,
        syns |-> <<<<"r", "e", "m", "o", "v", "e">>, <<"d", "e", "s", "t", "r", "o", "y">>,
                   <<"d", "r", "o", "p">>>>],
       [key |-> <<"u", "p", "d", "a", "t", "e">>,
        syns |-> <<<<"m", "o", "d", "i", "f", "y">>, <<"c", "h", "a", "n", "g", "e">>,
                   <<"e", "d", "i", "t">>, <<"p", "a", "t", "c", "h">>>>],
       [key |-> <<"g", "e", "t">>,
        syns |-> <<<<"f", "e", "t", "c", "h">>, <<"r", "e", "t", "r", "i", "e", "v", "e">>,
                   <<"r", "e", "a", "d">>, <<"o", "b", "t", "a", "i", "n">>>>],
       [key |-> <<"s", "e", "t">>,
        syns |-> <<<<"a", "s", "s", "i", "g", "n">>, <<"s", "t", "o", "r", "e">>,
                   <<"w", "r", "i", "t", "e">>, <<"p", "u", "t">>>>],
       [key |-> <<"l", "o", "a", "d">>,
        syns |-> <<<<"r", "e", "a", "d">>, <<"i", "m", "p", "o", "r", "t">>,
                   <<"f", "e", "t", "c", "h">>, <<"r", "e", "t", "r", "i", "e", "v", "e">>>>],
       [key |-> <<"s", "a", "v", "e">>,
        syns |-> <<<<"w", "r", "i", "t", "e">>, <<"s", "t", "o", "r", "e">>,
                   <<"e", "x", "p", "o", "r", "t">>, <<"p", "e", "r", "s", "i", "s", "t">>>>],
       [key |-> <<"s", "e", "n", "d">>,
        syns |-> <<<<"t", "r", "a", "n", "s", "m", "i", "t">>, <<"e", "m", "i", "t">>,
                   <<"d", "i", "s", "p", "a", "t", "c", "h">>, <<"p", "o", "s", "t">>>>],
       [key |-> <<"r", "e", "c", "e", "i", "v", "e">>,
        syns |-> <<<<"g", "e", "t">>, <<"a", "c", "c", "e", "p", "t">>,
                   <<"h", "a", "n", "d", "l", "e">>>>],
       [key |-> <<"p", "r", "o", "c", "e", "s", "s">>,
        syns |-> <<<<"h", "a", "n", "d", "l", "e">>, <<"e", "x", "e", "c", "u", "t", "e">>,
                   <<"r", "u", "n">>, <<"p", "e", "r", "f", "o", "r", "m">>>>],
       [key |-> <<"h", "a", "n", "d", "l", "e">>,
        syns |-> <<<<"p", "r", "o", "c", "e", "s", "s">>, <<"m", "a", "n", "a", "g", "e">>,
                   <<"d", "e", "a", "l">>>>],
       [key |-> <<"c", "a", "c", "h", "e">>,
        syns |-> <<<<"s", "t", "o", "r", "e">>, <<"b", "u", "f", "f", "e", "r">>,
                   <<"m", "e", "m", "o", "r", "y">>>>],
       [key |-> <<"e", "n", "c", "r", "y", "p", "t">>,
        syns |-> <<<<"e", "n", "c", "r", "y", "p", "t", "i", "o", "n">>,
                   <<"h", "a", "s", "h">>, <<"s", "e", "c", "u", "r", "e">>,
                   <<"c", "r", "y", "p", "t", "o">>>>],
       [key |-> <<"d", "e", "c", "r", "y", "p", "t">>,
        syns |-> <<<<"d", "e", "c", "r", "y", "p", "t", "i", "o", "n">>,
                   <<"d", "e", "c", "o", "d", "e">>>>]
    >>

\* self.synonyms[token] as a set, empty when token is not a key
SynonymsOf(token) ==
    UNION {{synonyms[k].syns[i] : i \in 1..Len(synonyms[k].syns)} :
              k \in {k \in 1..Len(synonyms) : synonyms[k].key = token}}

\* TextSearchEngine.expand_query; the result is a set, as in the code before list()
expand_query(tokens) ==
    LET Of(token) ==
            LET stemmed == stem(token)
                syns == SynonymsOf(token) \cup SynonymsOf(stemmed)
            IN  {stemmed} \cup syns \cup {stem(syn) : syn \in syns}
    IN  Range(tokens) \cup UNION {Of(tokens[i]) : i \in 1..Len(tokens)}

RECURSIVE CurrRow(_, _, _, _)
\* the inner loop of levenshtein_distance: the row of character c1 of s1,
\* curr_row holding the entries computed so far
CurrRow(prev_row, curr_row, c1, s2) ==
    LET j == Len(curr_row)
    IN  IF j > Len(s2) THEN curr_row
        ELSE LET insertions == prev_row[j + 1] + 1
                 deletions == curr_row[j] + 1
                 substitutions == prev_row[j] + (IF c1 # s2[j] THEN 1 ELSE 0)
                 least == CHOOSE m \in {insertions, deletions, substitutions} :
                              \A n \in {insertions, deletions, substitutions} : m <= n
             IN  CurrRow(prev_row, Append(curr_row, least), c1, s2)

RECURSIVE Rows(_, _, _)
\* the outer loop of levenshtein_distance: rows holds the rows computed so far
Rows(rows, s1, s2) ==
    LET i == Len(rows)
    IN  IF i > Len(s1) THEN rows
        ELSE Rows(Append(rows, CurrRow(rows[i], <<i>>, s1[i], s2)), s1, s2)

\* TextSearchEngine.levenshtein_distance
levenshtein_distance(s1, s2) ==
    LET long == IF Len(s1) < Len(s2) THEN s2 ELSE s1
        short == IF Len(s1) < Len(s2) THEN s1 ELSE s2
        range == [j \in 1..(Len(short) + 1) |-> j - 1]
    IN  IF Len(short) = 0 THEN Len(long)
        ELSE Rows(<<range>>, long, short)[Len(long) + 1][Len(short) + 1]

\* f"stem:{token}"
StemPrefix == <<"s", "t", "e", "m", ":">>
StemKey(token) == StemPrefix \o token

\* a TextSearchEngine after __init__; avg_doc_length is kept as the fraction
\* total_length / doc_count it is computed from (0 / 1 for 0.0)
NoEngine ==
    [documents |-> <<>>, inverted_index |-> <<>>, doc_lengths |-> <<>>,
     avg_doc_length |-> [total |-> 0, count |-> 1], doc_count |-> 0]

\* self.inverted_index.get(term, set())
Postings(engine, term) ==
    IF term \in DOMAIN engine.inverted_index THEN engine.inverted_index[term] ELSE {}

\* TextSearchEngine.find_fuzzy_matches, as the set of the terms it lists
find_fuzzy_matches(engine, token, max_distance) ==
    LET min_len == IF Len(token) - max_distance > 1 THEN Len(token) - max_distance ELSE 1
        max_len == Len(token) + max_distance
    IN  {term \in DOMAIN engine.inverted_index :
            /\ ~StartsWith(term, StemPrefix)
            /\ min_len <= Len(term) /\ Len(term) <= max_len
            /\ LET distance == levenshtein_distance(token, term)
               IN  0 < distance /\ distance <= max_distance}

\* ' '.join(parts)
Join(parts) ==
    Flatten([i \in 1..(2 * Len(parts) - 1) |->
                IF i % 2 = 1 THEN parts[(i + 1) \div 2] ELSE <<" ">>],
            1, 2 * Len(parts) - 1)

\* TextSearchEngine.get_searchable_text
get_searchable_text(symbol) ==
    Join(<<symbol.name, symbol.name, symbol.name, symbol.docstring, symbol.docstring,
           symbol.code, symbol.symbol_type>>)

\* tokens.count(term)
Count(tokens, term) == Cardinality({i \in 1..Len(tokens) : tokens[i] = term})

\* sum(self.doc_lengths.values())
RECURSIVE SumLengths(_, _)
SumLengths(doc_lengths, ids) ==
    IF ids = {} THEN 0
    ELSE LET id == CHOOSE id \in ids : TRUE
         IN  doc_lengths[id] + SumLengths(doc_lengths, ids \ {id})

\* the body of the loop of add_documents_batch (and add_document before its
\* statistics): the document is stored under doc_id, replacing the one that
\* was there, and doc_id is added to the postings of its tokens and stems
AddOne(engine, doc_id, symbol) ==
    LET tokens == tokenize(get_searchable_text(symbol))
        stemmed_tokens == [i \in 1..Len(tokens) |-> stem(tokens[i])]
        keys == Range(tokens) \cup {StemKey(t) : t \in Range(stemmed_tokens)}
    IN  [engine EXCEPT
            !.documents = (doc_id :> [symbol |-> symbol, tokens |-> tokens,
                                      stemmed |-> stemmed_tokens]) @@ @,
            !.inverted_index =
                [k \in DOMAIN @ \cup keys |->
                    (IF k \in DOMAIN @ THEN @[k] ELSE {})
                        \cup (IF k \in keys THEN {doc_id} ELSE {})],
            !.doc_lengths = (doc_id :> Len(tokens)) @@ @]

\* the statistics both add_document and add_documents_batch end with
UpdateStats(engine) ==
    LET doc_count == Cardinality(DOMAIN engine.documents)
        total_length == SumLengths(engine.doc_lengths, DOMAIN engine.doc_lengths)
    IN  [engine EXCEPT
            !.doc_count = doc_count,
            !.avg_doc_length = IF doc_count > 0
                               THEN [total |-> total_length, count |-> doc_count]
                               ELSE [total |-> 0, count |-> 1]]

\* TextSearchEngine.add_document
add_document(engine, doc_id, symbol) == UpdateStats(AddOne(engine, doc_id, symbol))

RECURSIVE AddAll(_, _)
AddAll(engine, symbols) ==
    IF symbols = <<>> THEN engine
    ELSE AddAll(AddOne(engine, Head(symbols)[1], Head(symbols)[2]), Tail(symbols))

\* TextSearchEngine.add_documents_batch, symbols a list of <<doc_id, symbol>>
text_add_documents_batch(engine, symbols) == UpdateStats(AddAll(engine, symbols))

\* TextSearchEngine.clear
text_clear(engine) == NoEngine

\* scores are fixed-point numbers: Scale stands for 1.0
Scale == 10000

RECURSIVE AtanhSeries(_, _, _)
\* z + z^3/3 + z^5/5 + ... from the term z^k / k on, pow = z^k
AtanhSeries(pow, z, k) ==
    IF pow = 0 THEN 0
    ELSE (pow \div k) + AtanhSeries((((pow * z) \div Scale) * z) \div Scale, z, k + 2)

\* math.log(num / den) for num >= den > 0, as 2 * atanh((num - den) / (num + den))
Log(num, den) ==
    LET z == ((num - den) * Scale) \div (num + den)
    IN  2 * AtanhSeries(z, z, 1)

\* self.k1 and self.b, as fractions
k1 == [num |-> 3, den |-> 2]
b == [num |-> 3, den |-> 4]

\* idf without the + 1 inside the logarithm
idf_without_one(engine, term) ==
    LET doc_freq == Cardinality(Postings(engine, term))
        num == 2 * (engine.doc_count - doc_freq) + 1
        den == 2 * doc_freq + 1
    IN  IF doc_freq = 0 THEN 0
        ELSE IF num >= den THEN Log(num, den) ELSE 0 - Log(den, num)

\* TextSearchEngine.idf:
\* log((doc_count - doc_freq + 0.5) / (doc_freq + 0.5) + 1), halves doubled away
idf(engine, term) ==
    LET doc_freq == Cardinality(Postings(engine, term))
        num == 2 * (engine.doc_count - doc_freq) + 1
        den == 2 * doc_freq + 1
    IN  IF doc_freq = 0 THEN 0
        ELSE IF num >= 0 THEN Log(num + den, den) ELSE 0 - Log(den, num + den)

\* idf * numerator / denominator of bm25_score, with
\* numerator = tf * (k1 + 1) and
\* denominator = tf + k1 * (1 - b + b * doc_length / avg_doc_length)
Bm25Term(idf_value, tf, doc_length, avg_doc_length) ==
    LET total == avg_doc_length.total
        count == avg_doc_length.count
        numerator == tf * (k1.num + k1.den) * b.den * total
        denominator == tf * k1.den * b.den * total
                       + k1.num * ((b.den - b.num) * total + b.num * doc_length * count)
    IN  (idf_value * numerator) \div denominator

\* f"~{term}"
Approx(term) == <<"~">> \o term

RECURSIVE Sum(_, _, _)
\* numbers[lo] + ... + numbers[hi]
Sum(numbers, lo, hi) ==
    IF lo > hi THEN 0
    ELSE IF lo = hi THEN numbers[lo]
         ELSE LET mid == (lo + hi) \div 2
              IN  Sum(numbers, lo, mid) + Sum(numbers, mid + 1, hi)

\* one pass of the loop of bm25_score: what the term adds to the score and
\* to matched_terms
Bm25Step(engine, doc_id, term) ==
    LET doc == engine.documents[doc_id]
        doc_length == engine.doc_lengths[doc_id]
    IN  IF term \in Range(doc.tokens)
        THEN [score |-> Bm25Term(idf(engine, term), Count(doc.tokens, term),
                                 doc_length, engine.avg_doc_length),
              matched_terms |-> <<term>>]
        ELSE IF stem(term) \in Range(doc.stemmed)
             THEN [score |-> Bm25Term(idf(engine, StemKey(stem(term))),
                                      Count(doc.stemmed, stem(term)),
                                      doc_length, engine.avg_doc_length),
                   matched_terms |-> <<Approx(term)>>]
             ELSE [score |-> 0, matched_terms |-> <<>>]

\* TextSearchEngine.bm25_score
bm25_score(engine, doc_id, query_terms) ==
    IF doc_id \notin DOMAIN engine.documents
    THEN [score |-> 0, matched_terms |-> <<>>]
    ELSE LET steps == [i \in 1..Len(query_terms) |->
                          Bm25Step(engine, doc_id, query_terms[i])]
         IN  [score |-> Sum([i \in 1..Len(steps) |-> steps[i].score], 1, Len(steps)),
              matched_terms |->
                  Flatten([i \in 1..Len(steps) |-> steps[i].matched_terms],
                          1, Len(steps))]

\* the orders in which a set can be listed
Orders(S) ==
    {order \in [1..Cardinality(S) -> S] :
        \A i, j \in 1..Cardinality(S) : i # j => order[i] # order[j]}

\* one order of a set, for lists whose order nothing depends on
RECURSIVE ListOf(_)
ListOf(S) ==
    IF S = {} THEN <<>>
    ELSE LET x == CHOOSE x \in S : TRUE IN <<x>> \o ListOf(S \ {x})

\* seq[:limit]
Take(seq, limit) ==
    LET n == IF limit >= 0 THEN limit ELSE Len(seq) + limit
    IN  SubSeq(seq, 1, IF n > Len(seq) THEN Len(seq) ELSE n)

RECURSIVE SortByScore(_)
\* list.sort(key=score, reverse=True): descending, equal scores keep their order
SortByScore(results) ==
    IF results = <<>> THEN <<>>
    ELSE LET sorted == SortByScore(SubSeq(results, 1, Len(results) - 1))
             last == results[Len(results)]
             ahead == {i \in 1..Len(sorted) : sorted[i].score >= last.score}
             n == Cardinality(ahead)
         IN  SubSeq(sorted, 1, n) \o <<last>> \o SubSeq(sorted, n + 1, Len(sorted))

\* fuzzy_matches[:5]
FuzzyLimit == 5

\* the fuzzy fallback of search: the terms found for the query's tokens, at
\* most FuzzyLimit for each token
FuzzyTokens(engine, query_tokens) ==
    LET First(matches) ==
            IF Cardinality(matches) <= FuzzyLimit THEN matches
            ELSE CHOOSE some \in SUBSET matches : Cardinality(some) = FuzzyLimit
    IN  UNION {First(find_fuzzy_matches(engine, query_tokens[i], 1)) :
                  i \in {i \in 1..Len(query_tokens) : Len(query_tokens[i]) >= 4}}

\* the candidate documents of search
Candidates(engine, query_tokens) ==
    LET expanded_tokens == expand_query(query_tokens)
        direct == UNION {Postings(engine, token)
                            \cup Postings(engine, StemKey(stem(token))) :
                                token \in expanded_tokens}
    IN  IF direct = {} /\ Len(query_tokens) <= 3
        THEN UNION {Postings(engine, term) : term \in FuzzyTokens(engine, query_tokens)}
        ELSE direct

\* the weight of a score from the expanded tokens, in tenths
ExpandedWeight == 7

\* the scoring of one candidate with the terms of the rescoring left unmarked
ScoreCandidateUnmarked(engine, doc_id, query_tokens) ==
    LET primary == bm25_score(engine, doc_id, query_tokens)
        expanded == bm25_score(engine, doc_id, ListOf(expand_query(query_tokens)))
        scored == IF primary.score = 0
                  THEN [score |-> (expanded.score * ExpandedWeight) \div 10,
                        matched_terms |-> expanded.matched_terms]
                  ELSE primary
    IN  IF scored.score > 0
        THEN <<[symbol_id |-> doc_id, score |-> scored.score,
                matched_terms |-> scored.matched_terms]>>
        ELSE <<>>

\* the scoring of one candidate in search: nothing, or its one result
ScoreCandidate(engine, doc_id, query_tokens) ==
    LET primary == bm25_score(engine, doc_id, query_tokens)
        expanded == bm25_score(engine, doc_id, ListOf(expand_query(query_tokens)))
        scored == IF primary.score = 0
                  THEN [score |-> (expanded.score * ExpandedWeight) \div 10,
                        matched_terms |-> [i \in 1..Len(expanded.matched_terms) |->
                                              Approx(expanded.matched_terms[i])]]
                  ELSE primary
    IN  IF scored.score > 0
        THEN <<[symbol_id |-> doc_id, score |-> scored.score,
                matched_terms |-> scored.matched_terms]>>
        ELSE <<>>

\* TextSearchEngine.search; order lists the candidates as the loop over the
\* set meets them
text_search(engine, query, limit, order) ==
    LET query_tokens == tokenize(query)
        results == Flatten([i \in 1..Len(order) |->
                               ScoreCandidate(engine, order[i], query_tokens)],
                           1, Len(order))
    IN  IF DOMAIN engine.documents = {} THEN <<>>
        ELSE IF query_tokens = <<>> THEN <<>>
        ELSE IF Candidates(engine, query_tokens) = {} THEN <<>>
        ELSE Take(SortByScore(results), limit)

\* the candidates search loops over, for a query: empty when it returns early
CandidatesOf(engine, query) ==
    IF DOMAIN engine.documents = {} \/ tokenize(query) = <<>> THEN {}
    ELSE Candidates(engine, tokenize(query))

RECURSIVE SortByFreq(_)
\* suggestions.sort(key=doc_freq, reverse=True)
SortByFreq(suggestions) ==
    IF suggestions = <<>> THEN <<>>
    ELSE LET sorted == SortByFreq(SubSeq(suggestions, 1, Len(suggestions) - 1))
             last == suggestions[Len(suggestions)]
             ahead == {i \in 1..Len(sorted) : sorted[i].doc_freq >= last.doc_freq}
             n == Cardinality(ahead)
         IN  SubSeq(sorted, 1, n) \o <<last>> \o SubSeq(sorted, n + 1, Len(sorted))

\* the terms collected when the stem: entries are not skipped
SuggestedWithStems(engine, prefix) ==
    {term \in DOMAIN engine.inverted_index : StartsWith(term, Lower(prefix))}

\* the terms autocomplete collects for a prefix of 2 or more characters
Suggested(engine, prefix) ==
    {term \in DOMAIN engine.inverted_index :
        ~StartsWith(term, StemPrefix) /\ StartsWith(term, Lower(prefix))}

\* TextSearchEngine.autocomplete; keys lists the suggested terms in the order
\* the loop over the index's keys meets them
autocomplete(engine, prefix, limit, keys) ==
    IF Len(prefix) < 2 THEN <<>>
    ELSE LET suggestions == [i \in 1..Len(keys) |->
                                [term |-> keys[i],
                                 doc_freq |-> Cardinality(engine.inverted_index[keys[i]])]]
             sorted == Take(SortByFreq(suggestions), limit)
         IN  [i \in 1..Len(sorted) |-> sorted[i].term]

(***************************************************************************)
(* A TextSearchEngine on its own: the symbols given to it and the calls    *)
(* made on it.                                                             *)
(***************************************************************************)
MaxDocs == 2
DocIds == 0..(MaxDocs - 1)

\* def parseFile(path): """Parse a file"""
SymParseFile ==
    [name |-> <<"p", "a", "r", "s", "e", "F", "i", "l", "e">>,
     docstring |-> <<"P", "a", "r", "s", "e", " ", "a", " ", "f", "i", "l", "e">>,
     code |-> <<"d", "e", "f", " ", "p", "a", "r", "s", "e", "F", "i", "l", "e", "(",
                "p", "a", "t", "h", ")">>,
     symbol_type |-> <<"f", "u", "n", "c", "t", "i", "o", "n">>]
\* def load_users(): """Loading users from store"""
SymLoadUsers ==
    [name |-> <<"l", "o", "a", "d", "_", "u", "s", "e", "r", "s">>,
     docstring |-> <<"L", "o", "a", "d", "i", "n", "g", " ", "u", "s", "e", "r", "s",
                     " ", "f", "r", "o", "m", " ", "s", "t", "o", "r", "e">>,
     code |-> <<"d", "e", "f", " ", "l", "o", "a", "d", "_", "u", "s", "e", "r", "s",
                "(", ")">>,
     symbol_type |-> <<"f", "u", "n", "c", "t", "i", "o", "n">>]
\* class Parser: """Stateful parser"""
SymParser ==
    [name |-> <<"P", "a", "r", "s", "e", "r">>,
     docstring |-> <<"S", "t", "a", "t", "e", "f", "u", "l", " ", "p", "a", "r", "s",
                     "e", "r">>,
     code |-> <<"c", "l", "a", "s", "s", " ", "P", "a", "r", "s", "e", "r">>,
     symbol_type |-> <<"c", "l", "a", "s", "s">>]
TextSymbols == {SymParseFile, SymLoadUsers, SymParser}

\* queries: a token of a document, a word that only stems or synonyms reach,
\* a misspelt token, a stopword, blanks, nothing
QueryTexts ==
    {<<"p", "a", "r", "s", "e">>, <<"u", "s", "e", "r", "s">>,
     <<"P", "a", "r", "s", "i", "n", "g">>, <<"u", "s", "e", "r", "z">>,
     <<"t", "h", "e">>, <<" ">>, <<>>}
Prefixes == {<<"p", "a">>, <<"S", "T">>, <<"p">>}
DefaultLimit == 100
Limits == {0, 1, DefaultLimit}

NoTextCall ==
    [op |-> None, arg |-> <<>>, limit |-> 0, order |-> <<>>, out |-> <<>>, value |-> 0]

\* a falsy filter argument of SearchEngine.search: None or ""
NoFilter == <<>>

NoSearch ==
    [rows |-> 0, vector_results |-> <<>>, query |-> <<>>, limit |-> 0,
     min_similarity |-> 0, symbol_type |-> NoFilter, file_path_filter |-> NoFilter,
     done |-> FALSE, text_scores |-> <<>>, semantic_scores |-> <<>>, out |-> <<>>]

(***************************************************************************)
(* State.                                                                  *)
(***************************************************************************)
VARIABLES
    vector_store,   \* VectorStore: the appended entries in order; id = position - 1
    symbols_tbl,    \* MetadataStore: the rows of the symbols table, in insertion order
    files_tbl,      \* MetadataStore: the paths that have a row in the files table
    documents,      \* TextSearchEngine.documents: doc_id -> symbol
    pc,             \* per caller: the statement it is about to execute
    loc,            \* per caller: the locals of the call in progress
    outcome,        \* per caller: what its last completed call returned or raised
    cleared_last,   \* history: "no", or the call that completed most recently is a
                    \* clear_index, of an "empty" or a "nonempty" lexical index
    assigned,       \* history: the embedding ids given to symbol records since the
                    \* vector index was last emptied, in order of assignment
    epoch,          \* history: per store, how many times it has been cleared
    ever_raised,    \* history: some call has raised to its caller
    e_cache,        \* embedder alone: the cache files, text -> vector
    e_call,         \* embedder alone: the last batch_generate call and its result
    ts,             \* a TextSearchEngine: its documents and its inverted_index
    ts_call,        \* a TextSearchEngine: a call on it and what it returned
    s_call,         \* a SearchEngine.search call: its arguments, what the lexical
                    \* and the vector search gave it, and what it returned
    js_call,        \* a JSParser._extract_block call: its arguments, its locals,
                    \* where it is, and what it returned
    app,            \* the application process: whether it runs, and the vector
                    \* index saved in the storage directory
    own_text        \* a SearchEngine built without the Indexer's TextSearchEngine:
                    \* whether there is one, and the documents of its own

pipeline_vars == <<vector_store, symbols_tbl, files_tbl, documents, pc, loc, outcome,
                   cleared_last, assigned, epoch, ever_raised>>
embed_vars == <<e_cache, e_call>>
read_vars == <<ts, ts_call, s_call, js_call, app, own_text>>
vars == <<vector_store, symbols_tbl, files_tbl, documents, pc, loc, outcome,
          cleared_last, assigned, epoch, ever_raised, e_cache, e_call, ts, ts_call,
          s_call, js_call, app, own_text>>

Threads == {1, 2}

\* history of a search: how many clears each store had seen when the search
\* read it, and how many candidate ids its two index reads returned
NoObs == [text |-> 0, vector |-> 0, metadata |-> 0, candidates |-> 0]

\* IndexStats()
ZeroStats ==
    [files_processed |-> 0, files_failed |-> 0, total_symbols |-> 0,
     functions_indexed |-> 0, classes_indexed |-> 0, methods_indexed |-> 0,
     total_lines |-> 0]

\* the process after its first start: it runs, and the storage directory
\* holds no vectors.index
Started == [running |-> TRUE, saved_exists |-> FALSE, saved |-> <<>>]
\* no SearchEngine with a lexical index of its own has been built
NoSearchEngine == [built |-> FALSE, documents |-> <<>>]

\* no _extract_block call
NoBlock ==
    [source |-> <<>>, brace_pos |-> 0, start_line |-> 1, pc |-> "none",
     open_char |-> "", close_char |-> "", depth |-> 0, pos |-> 0, in_string |-> FALSE,
     string_char |-> None, code |-> <<>>, end_line |-> 0]

IdleLoc ==
    [op |-> None, path |-> None, in_dir |-> FALSE, queue |-> <<>>, symbols |-> <<>>,
     embeddings |-> <<>>, start |-> 0, appended_at |-> 0, stats |-> ZeroStats,
     dstats |-> ZeroStats, name |-> <<>>, text_ids |-> {}, vector_ids |-> {},
     obs |-> NoObs, store_failed |-> FALSE]

NoOutcome ==
    [op |-> None, status |-> None, path |-> None, name |-> <<>>, stats |-> ZeroStats,
     result |-> {}, total |-> 0, obs |-> NoObs,
     store_failed |-> FALSE, after_clear |-> FALSE, cleared |-> "no",
     listing |-> <<>>]

NoCall == [codes |-> <<>>, batch_size |-> 1, failing |-> {}, use_cache |-> FALSE,
           cache |-> <<>>, out |-> <<>>]

Init ==
    /\ vector_store = <<>>
    /\ symbols_tbl = <<>>
    /\ files_tbl = {}
    /\ documents = <<>>
    /\ pc = [t \in Threads |-> "idle"]
    /\ loc = [t \in Threads |-> IdleLoc]
    /\ outcome = [t \in Threads |-> NoOutcome]
    /\ cleared_last = "no"
    /\ assigned = <<>>
    /\ epoch = [text |-> 0, vector |-> 0, metadata |-> 0]
    /\ ever_raised = FALSE
    /\ e_cache = <<>>
    /\ e_call = NoCall
    /\ ts = NoEngine
    /\ ts_call = NoTextCall
    /\ s_call = NoSearch
    /\ js_call = NoBlock
    /\ app = Started
    /\ own_text = NoSearchEngine

(***************************************************************************)
(* The stores' interfaces (storage package).                               *)
(***************************************************************************)
\* VectorStore.vector_count
vector_count(vs) == Len(vs)
\* VectorStore.add(embeddings, metadata): appended in the order given
VectorAdd(vs, embeddings, vector_metadata) ==
    vs \o [i \in 1..Len(embeddings) |->
              [vec |-> embeddings[i], meta |-> vector_metadata[i]]]
\* MetadataStore.add_symbols_batch(records)
AddSymbolsBatch(tbl, symbol_records) == tbl \o symbol_records
\* MetadataStore.get_symbols_by_embedding_ids: the row of an id, if any
RowsOf(tbl, id) == {i \in 1..Len(tbl) : tbl[i].embedding_id = id}
\* MetadataStore.search_symbols(name): rows whose name contains the text
Contains(name, q) ==
    \E i \in 1..(Len(name) + 1) :
        i + Len(q) - 1 <= Len(name) /\ SubSeq(name, i, i + Len(q) - 1) = q
SearchSymbols(tbl, q) == {i \in 1..Len(tbl) : Contains(tbl[i].name, q)}

(***************************************************************************)
(* Indexer (indexer.py).                                                   *)
(***************************************************************************)
\* batch_size=16 of the batch_generate call in _index_symbols
IndexBatchSize == 16

\* the composite text embedded for a symbol: its name, docstring and code,
\* i.e. the definition at that node of that file
code_text(path, symbol) == <<path, symbol.node>>

\* the start offsets of the sub-batches of n texts
BatchOffsets(n, batch_size) == {i \in 0..(n - 1) : i % batch_size = 0}

\* ids counted from one instead of from the count
start_embedding_id_from_one(vs) == vector_count(vs) + 1
\* start_embedding_id = self.vector_store.vector_count
start_embedding_id(vs) == vector_count(vs)

\* vector_metadata of _index_symbols
VectorMetadata(path, symbols) ==
    [i \in 1..Len(symbols) |->
        [file_path |-> path, symbol_name |-> symbols[i].name,
         symbol_type |-> symbols[i].type, start_line |-> symbols[i].start_line,
         end_line |-> symbols[i].end_line]]

\* symbol_records of _index_symbols (code and docstring: the text at node)
SymbolRecords(path, symbols, start) ==
    [i \in 1..Len(symbols) |->
        [file_id |-> path, name |-> symbols[i].name, symbol_type |-> symbols[i].type,
         node |-> symbols[i].node, start_line |-> symbols[i].start_line,
         end_line |-> symbols[i].end_line, embedding_id |-> start + (i - 1)]]

\* text_docs of _index_symbols, as doc_id -> symbol
TextDocs(path, symbols, start) ==
    [d \in {start + (i - 1) : i \in 1..Len(symbols)} |->
        LET i == d - start + 1
        IN  [name |-> symbols[i].name, symbol_type |-> symbols[i].type,
             node |-> symbols[i].node, path |-> path]]

\* TextSearchEngine.add_documents_batch: documents[doc_id] = ... for each pair
add_documents_batch(docs, batch) ==
    [d \in DOMAIN docs \cup DOMAIN batch |->
        IF d \in DOMAIN batch THEN batch[d] ELSE docs[d]]

\* the history entries of one call's id assignment
Assignment(path, symbols, start) ==
    [i \in 1..Len(symbols) |->
        [id |-> start + (i - 1), path |-> path, k |-> i, type |-> symbols[i].type,
         name |-> symbols[i].name, parent_class |-> symbols[i].parent_class]]

NumSymbols(path) ==
    IF Files[path].ext \in python_extensions
    THEN Len(_extract_python_symbols(parse_file(path))) ELSE 0

RECURSIVE SumSymbols(_)
SumSymbols(paths) ==
    IF paths = <<>> THEN 0 ELSE NumSymbols(Head(paths)) + SumSymbols(Tail(paths))

\* symbols the calls in progress may still append
Pending(t) ==
    (IF pc[t] \in {"if_parse", "if_add_file", "is_embed", "is_vec_add"}
     THEN NumSymbols(loc[t].path) ELSE 0) + SumSymbols(loc[t].queue)
Room(n) == Len(vector_store) + Pending(1) + Pending(2) + n <= MaxVectors

\* stats.x += file_stats.x of index_directory's loop body
AddFileStats(stats, file_stats) ==
    [stats EXCEPT !.files_processed = @ + 1,
                  !.total_symbols = @ + file_stats.total_symbols,
                  !.functions_indexed = @ + file_stats.functions_indexed,
                  !.classes_indexed = @ + file_stats.classes_indexed,
                  !.methods_indexed = @ + file_stats.methods_indexed,
                  !.total_lines = @ + file_stats.total_lines]

\* except Exception in index_directory's loop
CountFailure(stats) == [stats EXCEPT !.files_failed = @ + 1]

\* index_file returns file_stats or raises: back in index_directory's loop when
\* it was called from there, else back at the caller
FileDone(t, file_stats, raised) ==
    IF loc[t].in_dir
    THEN /\ pc' = [pc EXCEPT ![t] = "id_loop"]
         /\ loc' = [loc EXCEPT ![t] =
                [@ EXCEPT !.dstats = IF raised THEN CountFailure(@)
                                     ELSE AddFileStats(@, file_stats),
                          !.path = None, !.symbols = <<>>, !.embeddings = <<>>,
                          !.start = 0, !.appended_at = 0, !.stats = ZeroStats,
                          !.store_failed = @ \/ raised]]
         /\ UNCHANGED <<outcome, cleared_last, ever_raised>>
    ELSE /\ pc' = [pc EXCEPT ![t] = "idle"]
         /\ loc' = [loc EXCEPT ![t] = IdleLoc]
         /\ outcome' = [outcome EXCEPT ![t] =
                [NoOutcome EXCEPT !.op = "index_file",
                                  !.status = IF raised THEN "raised" ELSE "ok",
                                  !.path = loc[t].path, !.stats = file_stats,
                                  !.store_failed = raised,
                                  !.after_clear = (cleared_last # "no"), !.cleared = cleared_last]]
         /\ cleared_last' = "no"
         /\ ever_raised' = (ever_raised \/ raised)

\* a caller invokes Indexer.index_file(path)
index_file(t, path) ==
    /\ pc[t] = "idle"
    /\ Room(NumSymbols(path))
    /\ outcome' = [outcome EXCEPT ![t] = NoOutcome]
    /\ pc' = [pc EXCEPT ![t] = "if_parse"]
    /\ loc' = [loc EXCEPT ![t] = [IdleLoc EXCEPT !.op = "index_file", !.path = path]]
    /\ UNCHANGED <<vector_store, symbols_tbl, files_tbl, documents, cleared_last,
                   assigned, epoch, ever_raised, e_cache, e_call, read_vars>>

\* index_file: dispatch on the suffix and parse
if_parse(t) ==
    /\ pc[t] = "if_parse"
    /\ LET file_ext == Files[loc[t].path].ext
           failed == [ZeroStats EXCEPT !.files_failed = 1]
       IN  IF file_ext \in python_extensions
           THEN IF ~parse_file(loc[t].path).ok
                THEN FileDone(t, failed, FALSE)
                ELSE /\ pc' = [pc EXCEPT ![t] = "if_add_file"]
                     /\ UNCHANGED <<loc, outcome, cleared_last, ever_raised>>
           ELSE FileDone(t, failed, FALSE)
    /\ UNCHANGED <<vector_store, symbols_tbl, files_tbl, documents, assigned, epoch,
                   e_cache, e_call, read_vars>>

\* index_file: metadata_store.add_file, _extract_python_symbols, and the
\* return when there is nothing to index
if_add_file(t) ==
    /\ pc[t] = "if_add_file"
    /\ LET parsed_file == parse_file(loc[t].path)
           symbols_to_index == _extract_python_symbols(parsed_file)
           stats == [ZeroStats EXCEPT
                        !.total_lines = parsed_file.total_lines,
                        !.functions_indexed = CountType(symbols_to_index, "function"),
                        !.classes_indexed = CountType(symbols_to_index, "class"),
                        !.methods_indexed = CountType(symbols_to_index, "method"),
                        !.total_symbols = Len(symbols_to_index)]
       IN  /\ files_tbl' = files_tbl \cup {loc[t].path}
           /\ IF symbols_to_index # <<>>
              THEN /\ pc' = [pc EXCEPT ![t] = "is_embed"]
                   /\ loc' = [loc EXCEPT ![t].symbols = symbols_to_index,
                                         ![t].stats = stats]
                   /\ UNCHANGED <<outcome, cleared_last, ever_raised>>
              ELSE FileDone(t, [stats EXCEPT !.files_processed = 1], FALSE)
    /\ UNCHANGED <<vector_store, symbols_tbl, documents, assigned, epoch,
                   e_cache, e_call, read_vars>>

\* _index_symbols: the batched embedding request (an Indexer's default embedder
\* has no cache directory) and the read of the vector count
is_embed(t, model_errors) ==
    /\ pc[t] = "is_embed"
    /\ \E failing \in SUBSET BatchOffsets(Len(loc[t].symbols), IndexBatchSize) :
          /\ failing # {} => TRUE \in model_errors
          /\ LET codes == [i \in 1..Len(loc[t].symbols) |->
                              code_text(loc[t].path, loc[t].symbols[i])]
             IN  loc' = [loc EXCEPT
                        ![t].embeddings = batch_generate(codes, IndexBatchSize, <<>>, failing),
                        ![t].start = start_embedding_id(vector_store)]
    /\ pc' = [pc EXCEPT ![t] = "is_vec_add"]
    /\ UNCHANGED <<vector_store, symbols_tbl, files_tbl, documents, outcome, cleared_last,
                   assigned, epoch, ever_raised, e_cache, e_call, read_vars>>

\* _index_symbols: vector_store.add, which appends or raises
is_vec_add(t, io_errors) ==
    /\ pc[t] = "is_vec_add"
    /\ \E io_error \in io_errors :
          IF io_error
          THEN /\ FileDone(t, loc[t].stats, TRUE)
               /\ UNCHANGED vector_store
          ELSE /\ vector_store' = VectorAdd(vector_store, loc[t].embeddings,
                                            VectorMetadata(loc[t].path, loc[t].symbols))
               /\ pc' = [pc EXCEPT ![t] = "is_meta_add"]
               /\ loc' = [loc EXCEPT ![t].appended_at = Len(vector_store)]
               /\ UNCHANGED <<outcome, cleared_last, ever_raised>>
    /\ UNCHANGED <<symbols_tbl, files_tbl, documents, assigned, epoch,
                   e_cache, e_call, read_vars>>

\* _index_symbols: the symbol records get their ids, then
\* metadata_store.add_symbols_batch, which inserts or raises
is_meta_add(t, io_errors) ==
    /\ pc[t] = "is_meta_add"
    /\ assigned' = assigned \o Assignment(loc[t].path, loc[t].symbols, loc[t].start)
    /\ \E io_error \in io_errors :
          IF io_error
          THEN /\ FileDone(t, loc[t].stats, TRUE)
               /\ UNCHANGED symbols_tbl
          ELSE /\ symbols_tbl' = AddSymbolsBatch(symbols_tbl,
                                    SymbolRecords(loc[t].path, loc[t].symbols, loc[t].start))
               /\ pc' = [pc EXCEPT ![t] = "is_text_add"]
               /\ UNCHANGED <<loc, outcome, cleared_last, ever_raised>>
    /\ UNCHANGED <<vector_store, files_tbl, documents, epoch, e_cache, e_call, read_vars>>

\* _index_symbols: text_search.add_documents_batch; index_file returns
is_text_add(t) ==
    /\ pc[t] = "is_text_add"
    /\ documents' = add_documents_batch(documents,
                        TextDocs(loc[t].path, loc[t].symbols, loc[t].start))
    /\ FileDone(t, [loc[t].stats EXCEPT !.files_processed = 1], FALSE)
    /\ UNCHANGED <<vector_store, symbols_tbl, files_tbl, assigned, epoch,
                   e_cache, e_call, read_vars>>

\* the directory listings index_directory is called on
Dirs ==
    { <<"flat", "notes">>, <<"bad", "inner">>, <<"nested">>, <<"empty", "inner", "bad">>,
      <<"inner", "flat">> }

RECURSIVE all_files(_)
\* directory.rglob("*" + ext) for the supported suffixes
all_files(listing) ==
    IF listing = <<>> THEN <<>>
    ELSE (IF Files[Head(listing)].ext \in all_extensions THEN <<Head(listing)>> ELSE <<>>)
         \o all_files(Tail(listing))

\* a caller invokes Indexer.index_directory(directory)
index_directory(t, listing) ==
    /\ pc[t] = "idle"
    /\ Room(SumSymbols(all_files(listing)))
    /\ outcome' = [outcome EXCEPT ![t] = NoOutcome]
    /\ pc' = [pc EXCEPT ![t] = "id_loop"]
    /\ loc' = [loc EXCEPT ![t] = [IdleLoc EXCEPT !.op = "index_directory",
                                                 !.in_dir = TRUE,
                                                 !.name = listing,
                                                 !.queue = all_files(listing)]]
    /\ UNCHANGED <<vector_store, symbols_tbl, files_tbl, documents, cleared_last,
                   assigned, epoch, ever_raised, e_cache, e_call, read_vars>>

\* index_directory: the head of "for code_file in iterator", and the return
id_loop(t) ==
    /\ pc[t] = "id_loop"
    /\ IF loc[t].queue # <<>>
       THEN /\ pc' = [pc EXCEPT ![t] = "if_parse"]
            /\ loc' = [loc EXCEPT ![t].path = Head(loc[t].queue),
                                  ![t].queue = Tail(loc[t].queue)]
            /\ UNCHANGED <<outcome, cleared_last>>
       ELSE /\ pc' = [pc EXCEPT ![t] = "idle"]
            /\ loc' = [loc EXCEPT ![t] = IdleLoc]
            /\ outcome' = [outcome EXCEPT ![t] =
                   [NoOutcome EXCEPT !.op = "index_directory", !.status = "ok",
                                     !.stats = loc[t].dstats,
                                     !.store_failed = loc[t].store_failed,
                                     !.listing = loc[t].name,
                                     !.after_clear = (cleared_last # "no"),
                                     !.cleared = cleared_last]]
            /\ cleared_last' = "no"
    /\ UNCHANGED <<vector_store, symbols_tbl, files_tbl, documents, assigned, epoch,
                   ever_raised, e_cache, e_call, read_vars>>

\* a caller invokes Indexer.clear_index()
clear_index(t) ==
    /\ pc[t] = "idle"
    /\ epoch.metadata < MaxClears
    /\ outcome' = [outcome EXCEPT ![t] = NoOutcome]
    /\ pc' = [pc EXCEPT ![t] = "ci_metadata"]
    /\ loc' = [loc EXCEPT ![t] = [IdleLoc EXCEPT !.op = "clear_index"]]
    /\ UNCHANGED <<vector_store, symbols_tbl, files_tbl, documents, cleared_last,
                   assigned, epoch, ever_raised, e_cache, e_call, read_vars>>

\* clear_index without the metadata store's clear
ci_metadata_skipped(t) ==
    /\ pc[t] = "ci_metadata"
    /\ epoch' = [epoch EXCEPT !.metadata = @ + 1]
    /\ pc' = [pc EXCEPT ![t] = "ci_vector"]
    /\ UNCHANGED <<vector_store, symbols_tbl, files_tbl, documents, loc, outcome,
                   cleared_last, assigned, ever_raised, e_cache, e_call, read_vars>>

\* clear_index: self.metadata_store.clear()
ci_metadata(t) ==
    /\ pc[t] = "ci_metadata"
    /\ symbols_tbl' = <<>>
    /\ files_tbl' = {}
    /\ epoch' = [epoch EXCEPT !.metadata = @ + 1]
    /\ pc' = [pc EXCEPT ![t] = "ci_vector"]
    /\ UNCHANGED <<vector_store, documents, loc, outcome, cleared_last, assigned,
                   ever_raised, e_cache, e_call, read_vars>>

\* clear_index: self.vector_store.clear()
ci_vector(t) ==
    /\ pc[t] = "ci_vector"
    /\ vector_store' = <<>>
    /\ assigned' = <<>>
    /\ epoch' = [epoch EXCEPT !.vector = @ + 1]
    /\ pc' = [pc EXCEPT ![t] = "ci_text"]
    /\ UNCHANGED <<symbols_tbl, files_tbl, documents, loc, outcome, cleared_last,
                   ever_raised, e_cache, e_call, read_vars>>

\* clear_index: self.text_search.clear(); clear_index returns
ci_text(t) ==
    /\ pc[t] = "ci_text"
    /\ documents' = <<>>
    /\ epoch' = [epoch EXCEPT !.text = @ + 1]
    /\ pc' = [pc EXCEPT ![t] = "idle"]
    /\ loc' = [loc EXCEPT ![t] = IdleLoc]
    /\ outcome' = [outcome EXCEPT ![t] =
           [NoOutcome EXCEPT !.op = "clear_index", !.status = "ok",
                             !.after_clear = (cleared_last # "no"), !.cleared = cleared_last]]
    /\ cleared_last' = IF documents = <<>> THEN "empty" ELSE "nonempty"
    /\ UNCHANGED <<vector_store, symbols_tbl, files_tbl, assigned, ever_raised,
                   e_cache, e_call, read_vars>>

(***************************************************************************)
(* SearchEngine.search (search.py) as a function of what the three stores  *)
(* hold: the fusion of the lexical and the vector results, the filters,    *)
(* the ranking.  Scores are in units of 1/Scale.                           *)
(***************************************************************************)
\* the symbols of an index, in the order of their embedding ids 0, 1, 2, with
\* the files row and the span of each
IndexedSymbols ==
    << [symbol |-> SymParseFile, file_id |-> 1, start_line |-> 1, end_line |-> 3],
       [symbol |-> SymLoadUsers, file_id |-> 2, start_line |-> 1, end_line |-> 2],
       [symbol |-> SymParser, file_id |-> 1, start_line |-> 5, end_line |-> 9] >>
\* the files table: Lib/io.py and app/users.py
IndexedFiles ==
    << <<"L", "i", "b", "/", "i", "o", ".", "p", "y">>,
       <<"a", "p", "p", "/", "u", "s", "e", "r", "s", ".", "p", "y">> >>
Unknown == <<"u", "n", "k", "n", "o", "w", "n">>

\* _build_text_index, or what _index_symbols has added: the lexical index of
\* the first `rows` symbols
LexicalIndex ==
    [rows \in 0..Len(IndexedSymbols) |->
        text_add_documents_batch(NoEngine,
            [i \in 1..rows |-> <<i - 1, IndexedSymbols[i].symbol>>])]

\* text_scores of search: the lexical scores divided by max_text_score, which
\* starts at 1.0
NormalizedScores(text_results) ==
    LET scores == {Scale} \cup {text_results[i].score : i \in 1..Len(text_results)}
        max_text_score == CHOOSE m \in scores : \A x \in scores : x <= m
        At(id) == CHOOSE i \in 1..Len(text_results) : text_results[i].symbol_id = id
    IN  [id \in {text_results[i].symbol_id : i \in 1..Len(text_results)} |->
            (text_results[At(id)].score * Scale) \div max_text_score]

\* the hybrid scoring with the semantic-only score left unpenalized
FinalScoreUnpenalized(text_score, semantic_score) ==
    IF text_score > 0
    THEN (text_score * 8 + semantic_score * 2) \div 10
    ELSE semantic_score

\* the hybrid scoring with the text score weighted 0.4
FinalScoreLightText(text_score, semantic_score) ==
    IF text_score > 0
    THEN (text_score * 4 + semantic_score * 2) \div 10
    ELSE (semantic_score * 4) \div 10

\* the hybrid scoring of one candidate
FinalScore(text_score, semantic_score) ==
    IF text_score > 0
    THEN (text_score * 8 + semantic_score * 2) \div 10
    ELSE (semantic_score * 4) \div 10

\* match_info of one candidate: "Keywords: " and its matched terms, or
\* "Semantic similarity only"
MatchInfo(text_score, matched_terms) ==
    IF text_score > 0
    THEN [text |-> "Keywords: ", terms |-> matched_terms]
    ELSE [text |-> "Semantic similarity only", terms |-> <<>>]

\* the path test taking the letters' case into account
PathMatchesCaseSensitive(file_path, file_path_filter) ==
    Contains(file_path, file_path_filter)

\* file_path_filter.lower() in file_path.lower()
PathMatches(file_path, file_path_filter) ==
    Contains(Lower(file_path), Lower(file_path_filter))

\* the body of search's loop over all_candidates: nothing, or the result of
\* one candidate
CandidateResult(embedding_id, call, text_results, text_scores) ==
    LET rows == call.rows
        semantic_scores == call.vector_results
        min_similarity == call.min_similarity
        symbol_type == call.symbol_type
        file_path_filter == call.file_path_filter
        symbol == IndexedSymbols[embedding_id + 1]
        text_score == IF embedding_id \in DOMAIN text_scores
                      THEN text_scores[embedding_id] ELSE 0
        semantic_score == IF embedding_id \in DOMAIN semantic_scores
                          THEN semantic_scores[embedding_id] ELSE 0
        final_score == FinalScore(text_score, semantic_score)
        file_path == IF symbol.file_id \in DOMAIN IndexedFiles
                     THEN IndexedFiles[symbol.file_id] ELSE Unknown
        matched == {i \in 1..Len(text_results) :
                       text_results[i].symbol_id = embedding_id}
        matched_terms == IF matched = {} THEN <<>>
                         ELSE text_results[CHOOSE i \in matched : TRUE].matched_terms
    IN  IF embedding_id + 1 > rows THEN <<>>
        ELSE IF symbol_type # NoFilter /\ symbol.symbol.symbol_type # symbol_type
        THEN <<>>
        ELSE IF final_score < min_similarity THEN <<>>
        ELSE IF /\ file_path_filter # NoFilter
                /\ ~PathMatches(file_path, file_path_filter)
        THEN <<>>
        ELSE <<[embedding_id |-> embedding_id, symbol_name |-> symbol.symbol.name,
                symbol_type |-> symbol.symbol.symbol_type, file_path |-> file_path,
                start_line |-> symbol.start_line, end_line |-> symbol.end_line,
                similarity_score |-> final_score,
                match_info |-> MatchInfo(text_score, matched_terms)]>>

\* the ranking with the list cut before it is sorted
RankedAfterCut(search_results, limit) ==
    LET cut == Take(search_results, limit)
        sorted == SortByScore([i \in 1..Len(cut) |->
                      [score |-> cut[i].similarity_score, result |-> cut[i]]])
    IN  [i \in 1..Len(sorted) |-> sorted[i].result]

\* search_results.sort(key=similarity_score, reverse=True); [:limit]
Ranked(search_results, limit) ==
    LET sorted == SortByScore([i \in 1..Len(search_results) |->
                      [score |-> search_results[i].similarity_score,
                       result |-> search_results[i]]])
    IN  Take([i \in 1..Len(sorted) |-> sorted[i].result], limit)

\* text_results of search
TextResults(engine, call) ==
    text_search(engine, call.query, DefaultLimit,
                ListOf(CandidatesOf(engine, call.query)))

\* all_candidates of search: the ids of the lexical and of the vector results
AllCandidates(call, text_results) ==
    {text_results[i].symbol_id : i \in 1..Len(text_results)}
        \cup DOMAIN call.vector_results

\* SearchEngine.search(query, limit, min_similarity, symbol_type,
\* file_path_filter) on an index of call.rows symbols, text_search answering
\* with text_results and the vector store with call.vector_results
\* (vector_id -> similarity_score); order lists all_candidates as the loop
\* over the set meets them
SearchResults(call, text_results, order) ==
    LET text_scores == NormalizedScores(text_results)
        semantic_scores == call.vector_results
        search_results ==
            Flatten([i \in 1..Len(order) |->
                        CandidateResult(order[i], call, text_results, text_scores)],
                    1, Len(order))
    IN  [call EXCEPT !.done = TRUE, !.text_scores = text_scores,
                     !.semantic_scores = semantic_scores,
                     !.out = Ranked(search_results, call.limit)]

(***************************************************************************)
(* SearchEngine (search.py), on the Indexer's three stores.                *)
(***************************************************************************)
\* the CodeSearchResult built from a symbols row
ResultOf(row) ==
    [symbol_name |-> row.name, symbol_type |-> row.symbol_type,
     file_path |-> IF row.file_id \in files_tbl THEN row.file_id ELSE "unknown",
     start_line |-> row.start_line, end_line |-> row.end_line,
     embedding_id |-> row.embedding_id]

\* a caller invokes SearchEngine.search(query)
search(t) ==
    /\ pc[t] = "idle"
    /\ outcome' = [outcome EXCEPT ![t] = NoOutcome]
    /\ pc' = [pc EXCEPT ![t] = "se_text"]
    /\ loc' = [loc EXCEPT ![t] = [IdleLoc EXCEPT !.op = "search"]]
    /\ UNCHANGED <<vector_store, symbols_tbl, files_tbl, documents, cleared_last,
                   assigned, epoch, ever_raised, e_cache, e_call, read_vars>>

\* search: text_results = self.text_search.search(query, limit=100): the ids of
\* some of the indexed documents, which ones depends on the query; none when
\* there are no documents
se_text(t) ==
    /\ pc[t] = "se_text"
    /\ \E text_ids \in SUBSET DOMAIN documents :
          loc' = [loc EXCEPT ![t].text_ids = text_ids, ![t].obs.text = epoch.text]
    /\ pc' = [pc EXCEPT ![t] = "se_vector"]
    /\ UNCHANGED <<vector_store, symbols_tbl, files_tbl, documents, outcome, cleared_last,
                   assigned, epoch, ever_raised, e_cache, e_call, read_vars>>

\* search: vector_results = self.vector_store.search(query_embedding,
\* k=min(100, vector_count)): the ids of the nearest k vectors
se_vector(t) ==
    /\ pc[t] = "se_vector"
    /\ loc' = [loc EXCEPT ![t].vector_ids = {i - 1 : i \in 1..vector_count(vector_store)},
                          ![t].obs.vector = epoch.vector]
    /\ pc' = [pc EXCEPT ![t] = "se_metadata"]
    /\ UNCHANGED <<vector_store, symbols_tbl, files_tbl, documents, outcome, cleared_last,
                   assigned, epoch, ever_raised, e_cache, e_call, read_vars>>

\* search: the candidates are resolved in the metadata store, unresolved ones
\* are skipped; search returns (default min_similarity, no filters)
se_metadata(t) ==
    /\ pc[t] = "se_metadata"
    /\ LET all_candidates == loc[t].text_ids \cup loc[t].vector_ids
           resolved == {id \in all_candidates : RowsOf(symbols_tbl, id) # {}}
           first(id) == CHOOSE i \in RowsOf(symbols_tbl, id) :
                            \A j \in RowsOf(symbols_tbl, id) : i <= j
       IN  outcome' = [outcome EXCEPT ![t] =
               [NoOutcome EXCEPT !.op = "search", !.status = "ok",
                    !.result = {ResultOf(symbols_tbl[first(id)]) : id \in resolved},
                    !.obs = [loc[t].obs EXCEPT !.metadata = epoch.metadata,
                                              !.candidates = Cardinality(all_candidates)],
                    !.after_clear = (cleared_last # "no"), !.cleared = cleared_last]]
    /\ pc' = [pc EXCEPT ![t] = "idle"]
    /\ loc' = [loc EXCEPT ![t] = IdleLoc]
    /\ cleared_last' = "no"
    /\ UNCHANGED <<vector_store, symbols_tbl, files_tbl, documents, assigned, epoch,
                   ever_raised, e_cache, e_call, read_vars>>

\* what a read-only call leaves behind
Returns(t, op, result, total) ==
    /\ pc[t] = "idle"
    /\ outcome' = [outcome EXCEPT ![t] =
           [NoOutcome EXCEPT !.op = op, !.status = "ok", !.result = result,
                             !.total = total,
                             !.after_clear = (cleared_last # "no"), !.cleared = cleared_last]]
    /\ cleared_last' = "no"
    /\ UNCHANGED <<vector_store, symbols_tbl, files_tbl, documents, pc, loc, assigned,
                   epoch, ever_raised, e_cache, e_call, read_vars>>

\* find_similar_code adding the snippet's vector to the store it searches
find_similar_code_adding(t) ==
    /\ pc[t] = "idle"
    /\ Len(vector_store) < MaxVectors
    /\ vector_store' = VectorAdd(vector_store, <<ZeroVec>>, <<None>>)
    /\ outcome' = [outcome EXCEPT ![t] =
           [NoOutcome EXCEPT !.op = "find_similar_code", !.status = "ok"]]
    /\ UNCHANGED <<symbols_tbl, files_tbl, documents, pc, loc, cleared_last, assigned,
                   epoch, ever_raised, e_cache, e_call, read_vars>>

\* SearchEngine.find_similar_code(snippet, limit, min_similarity): the nearest
\* `limit` vectors, resolved in the metadata store, those below min_similarity
\* dropped
find_similar_code(t) ==
    \E vector_ids \in SUBSET {i - 1 : i \in 1..vector_count(vector_store)} :
       Returns(t, "find_similar_code",
               {ResultOf(symbols_tbl[CHOOSE i \in RowsOf(symbols_tbl, id) : TRUE]) :
                   id \in {v \in vector_ids : RowsOf(symbols_tbl, v) # {}}}, 0)

QueryNames == {<<"f">>, <<"m">>}
QueryPaths == {"flat", "nested"}

\* SearchEngine.search_by_name(name)
search_by_name(t, name) ==
    Returns(t, "search_by_name",
            {ResultOf(symbols_tbl[i]) : i \in SearchSymbols(symbols_tbl, name)}, 0)

\* SearchEngine.get_symbol_by_name(name, file_path): the first exact match whose
\* file row exists and has that path
get_symbol_by_name(t, name, file_path) ==
    LET hits == {i \in SearchSymbols(symbols_tbl, name) :
                    /\ symbols_tbl[i].name = name
                    /\ symbols_tbl[i].file_id \in files_tbl
                    /\ symbols_tbl[i].file_id = file_path}
    IN  /\ pc[t] = "idle"
        /\ outcome' = [outcome EXCEPT ![t] =
               [NoOutcome EXCEPT
                    !.op = "get_symbol_by_name", !.status = "ok",
                    !.name = name, !.path = file_path,
                    !.result = IF hits = {} THEN {}
                               ELSE {ResultOf(symbols_tbl[CHOOSE i \in hits :
                                                             \A j \in hits : i <= j])},
                    !.after_clear = (cleared_last # "no"), !.cleared = cleared_last]]
        /\ cleared_last' = "no"
        /\ UNCHANGED <<vector_store, symbols_tbl, files_tbl, documents, pc, loc, assigned,
                       epoch, ever_raised, e_cache, e_call, read_vars>>

\* limit: int = 10 of the autocomplete route
AutocompleteLimit == 10

\* the lexical index _index_symbols has built, as far as it comes from the
\* names and the types of the symbols
DocumentsIndex ==
    LET ids == ListOf(DOMAIN documents)
        type_text == [function |-> <<"f", "u", "n", "c", "t", "i", "o", "n">>,
                      method |-> <<"m", "e", "t", "h", "o", "d">>,
                      class |-> <<"c", "l", "a", "s", "s">>]
    IN  text_add_documents_batch(NoEngine,
            [i \in 1..Len(ids) |->
                <<ids[i], [name |-> documents[ids[i]].name, docstring |-> <<>>,
                           code |-> <<>>,
                           symbol_type |-> type_text[documents[ids[i]].symbol_type]]>>])

\* the autocomplete route: search_engine.text_search.autocomplete(prefix, limit)
Autocomplete(t, prefix) ==
    \E keys \in Orders(Suggested(DocumentsIndex, prefix)) :
       Returns(t, "autocomplete",
               Range(autocomplete(DocumentsIndex, prefix, AutocompleteLimit, keys)), 0)

\* SearchEngine.get_stats()['total_symbols']: the metadata store's row count
get_stats(t) == Returns(t, "get_stats", {}, Len(symbols_tbl))

(***************************************************************************)
(* batch_generate on its own: any texts, batch size, cache and failures.   *)
(***************************************************************************)
Texts == {<<"flat", 2>>, <<"flat", 4>>}
TextLists == UNION {[1..n -> Texts] : n \in 0..MaxTexts}

\* a caller invokes embedder.batch_generate(codes, batch_size, use_cache) on an
\* embedder with a cache directory
BatchGenerate ==
    \E codes \in TextLists, batch_size \in 1..MaxBatch, use_cache \in BOOLEAN :
    LET cache == IF use_cache THEN e_cache ELSE <<>>
        uncached == Len(UncachedIndices(codes, cache, 1))
    IN  \E failing \in SUBSET BatchOffsets(uncached, batch_size) :
           /\ e_call' = [codes |-> codes, batch_size |-> batch_size,
                         failing |-> failing, use_cache |-> use_cache,
                         cache |-> cache,
                         out |-> batch_generate(codes, batch_size, cache, failing)]
           /\ e_cache' = IF use_cache
                         THEN CacheAfter(codes, batch_size, cache, failing)
                         ELSE e_cache
           /\ UNCHANGED <<pipeline_vars, read_vars>>

(***************************************************************************)
(* Specifications.                                                         *)
(***************************************************************************)
\* the statements of the calls in progress; io_errors: whether a store's write
\* may raise (TRUE) as well as succeed (FALSE), model_errors: the same for the
\* embedding model
Statement(t, io_errors, model_errors) ==
    \/ if_parse(t)
    \/ if_add_file(t)
    \/ is_embed(t, model_errors)
    \/ is_vec_add(t, io_errors)
    \/ is_meta_add(t, io_errors)
    \/ is_text_add(t)
    \/ ci_metadata(t)
    \/ ci_vector(t)
    \/ ci_text(t)
    \/ se_text(t)
    \/ se_vector(t)
    \/ se_metadata(t)

\* one caller: every call runs to completion before the next one starts
Next ==
    \/ \E path \in Paths : index_file(1, path)
    \/ \E listing \in Dirs : index_directory(1, listing)
    \/ clear_index(1)
    \/ search(1)
    \/ find_similar_code(1)
    \/ \E name \in QueryNames : search_by_name(1, name)
    \/ \E name \in QueryNames, file_path \in QueryPaths : get_symbol_by_name(1, name, file_path)
    \/ get_stats(1)
    \/ id_loop(1)
    \/ Statement(1, BOOLEAN, BOOLEAN)
Spec == Init /\ [][Next]_vars

\* two callers on the same Indexer and SearchEngine, the stores never failing
NextConc ==
    \/ \E t \in Threads : index_file(t, "inner")
    \/ clear_index(1)
    \/ search(2)
    \/ \E t \in Threads : Statement(t, {FALSE}, {FALSE})
SpecConc == Init /\ [][NextConc]_vars

\* one caller and stores that never fail: the files flat and twins are
\* indexed, the index is cleared, and every read operation is called
ReadNames == {<<"f">>, <<"g", "e", "t">>}
ReadPaths == {"flat", "twins"}
ReadPrefixes == {<<"g">>, <<"M", "e">>}
NextRead ==
    \/ \E path \in ReadPaths : index_file(1, path)
    \/ clear_index(1)
    \/ search(1)
    \/ find_similar_code(1)
    \/ \E name \in ReadNames : search_by_name(1, name)
    \/ \E name \in ReadNames, file_path \in ReadPaths :
          get_symbol_by_name(1, name, file_path)
    \/ \E prefix \in ReadPrefixes : Autocomplete(1, prefix)
    \/ Statement(1, {FALSE}, {FALSE})
SpecRead == Init /\ [][NextRead]_vars

(***************************************************************************)
(* Calls on a TextSearchEngine.                                            *)
(***************************************************************************)
\* one call at a time is followed: a call starts when the result of the one
\* before has been taken (TextReturn)
TextAddDocument(doc_id, symbol) ==
    /\ ts_call = NoTextCall
    /\ ts' = add_document(ts, doc_id, symbol)
    /\ UNCHANGED <<pipeline_vars, embed_vars, ts_call, s_call, js_call, app, own_text>>

TextAddBatch(symbols) ==
    /\ ts_call = NoTextCall
    /\ ts' = text_add_documents_batch(ts, symbols)
    /\ UNCHANGED <<pipeline_vars, embed_vars, ts_call, s_call, js_call, app, own_text>>

TextClear ==
    /\ ts_call = NoTextCall
    /\ ts' = text_clear(ts)
    /\ UNCHANGED <<pipeline_vars, embed_vars, ts_call, s_call, js_call, app, own_text>>

TextSearch(query, limit) ==
    /\ ts_call = NoTextCall
    /\ \E order \in Orders(CandidatesOf(ts, query)) :
          ts_call' = [NoTextCall EXCEPT !.op = "search", !.arg = query, !.limit = limit,
                                        !.order = order,
                                        !.out = text_search(ts, query, limit, order)]
    /\ UNCHANGED <<pipeline_vars, embed_vars, ts, s_call, js_call, app, own_text>>

TextAutocomplete(prefix, limit) ==
    /\ ts_call = NoTextCall
    /\ \E keys \in Orders(Suggested(ts, prefix)) :
          ts_call' = [NoTextCall EXCEPT !.op = "autocomplete", !.arg = prefix,
                                        !.limit = limit, !.order = keys,
                                        !.out = autocomplete(ts, prefix, limit, keys)]
    /\ UNCHANGED <<pipeline_vars, embed_vars, ts, s_call, js_call, app, own_text>>

TextIdf(term) ==
    /\ ts_call = NoTextCall
    /\ ts_call' = [NoTextCall EXCEPT !.op = "idf", !.arg = term,
                                     !.value = idf(ts, term)]
    /\ UNCHANGED <<pipeline_vars, embed_vars, ts, s_call, js_call, app, own_text>>

\* identifiers given to tokenize: slideFromLeft, slide_from_left, parseFile
Identifiers ==
    {<<"s", "l", "i", "d", "e", "F", "r", "o", "m", "L", "e", "f", "t">>,
     <<"s", "l", "i", "d", "e", "_", "f", "r", "o", "m", "_", "l", "e", "f", "t">>,
     <<"p", "a", "r", "s", "e", "F", "i", "l", "e">>}

TextTokenize(text) ==
    /\ ts_call = NoTextCall
    /\ ts_call' = [NoTextCall EXCEPT !.op = "tokenize", !.arg = text,
                                     !.out = tokenize(text)]
    /\ UNCHANGED <<pipeline_vars, embed_vars, ts, s_call, js_call, app, own_text>>

TextReturn ==
    /\ ts_call # NoTextCall
    /\ ts_call' = NoTextCall
    /\ UNCHANGED <<pipeline_vars, embed_vars, ts, s_call, js_call, app, own_text>>

\* the terms idf is asked about: the index's keys and one that is in no document
IdfTerms == DOMAIN ts.inverted_index \cup {<<"z", "z">>}

NextText ==
    \/ \E doc_id \in DocIds, symbol \in TextSymbols : TextAddDocument(doc_id, symbol)
    \/ \E symbols \in {<<<<0, SymParseFile>>, <<1, SymLoadUsers>>>>,
                       <<<<0, SymParser>>, <<0, SymLoadUsers>>>>} : TextAddBatch(symbols)
    \/ TextClear
    \/ \E query \in QueryTexts, limit \in Limits : TextSearch(query, limit)
    \/ \E prefix \in Prefixes, limit \in Limits : TextAutocomplete(prefix, limit)
    \/ \E term \in IdfTerms : TextIdf(term)
    \/ \E text \in Identifiers : TextTokenize(text)
    \/ TextReturn
SpecText == Init /\ [][NextText]_vars

(***************************************************************************)
(* SearchEngine.search on its own: any of the indexes, any answer of the   *)
(* vector store, any arguments.                                            *)
(***************************************************************************)
\* similarity scores the vector store answers with
SimLevels == {0, Scale \div 2, Scale}
\* an index holds the first 2 or all 3 symbols; its vector store holds no
\* vector (a SearchEngine on a fresh VectorStore), 2 or 3 (one more than the
\* symbols when a metadata write has failed)
IndexSizes == {2, 3}
VectorCounts == {0, 2, 3}
\* queries: a token of one symbol, a token of two symbols, that token with
\* three more of one of the two, a stopword, a blank, nothing
SearchQueries ==
    {<<"p", "a", "r", "s", "e">>, <<"f", "u", "n", "c", "t", "i", "o", "n">>,
     <<"f", "u", "n", "c", "t", "i", "o", "n", " ", "l", "o", "a", "d", " ",
       "u", "s", "e", "r", "s", " ", "s", "t", "o", "r", "e">>,
     <<"t", "h", "e">>, <<" ">>, <<>>}
SearchLimit == 20
SearchLimits == {1, 2, SearchLimit}
MinSimilarities == {0, (3 * Scale) \div 10}
TypeFilters == {NoFilter, <<"f", "u", "n", "c", "t", "i", "o", "n">>}
PathFilters == {NoFilter, <<"L", "I", "B">>}

SearchInputs ==
    {[NoSearch EXCEPT !.rows = rows, !.vector_results = vector_results,
                      !.query = query, !.limit = limit,
                      !.min_similarity = min_similarity,
                      !.symbol_type = symbol_type,
                      !.file_path_filter = file_path_filter] :
        rows \in IndexSizes,
        vector_results \in UNION {[0..(n - 1) -> SimLevels] : n \in VectorCounts},
        query \in SearchQueries, limit \in SearchLimits,
        min_similarity \in MinSimilarities, symbol_type \in TypeFilters,
        file_path_filter \in PathFilters}

\* a search call about to be made, on a SearchEngine whose text_search holds
\* the symbols of the metadata store
InitSearch ==
    /\ vector_store = <<>>
    /\ symbols_tbl = <<>>
    /\ files_tbl = {}
    /\ documents = <<>>
    /\ pc = [t \in Threads |-> "idle"]
    /\ loc = [t \in Threads |-> IdleLoc]
    /\ outcome = [t \in Threads |-> NoOutcome]
    /\ cleared_last = "no"
    /\ assigned = <<>>
    /\ epoch = [text |-> 0, vector |-> 0, metadata |-> 0]
    /\ ever_raised = FALSE
    /\ e_cache = <<>>
    /\ e_call = NoCall
    /\ ts \in {LexicalIndex[rows] : rows \in IndexSizes}
    /\ ts_call = NoTextCall
    /\ s_call \in {call \in SearchInputs : call.rows = ts.doc_count}
    /\ js_call = NoBlock
    /\ app = Started
    /\ own_text = NoSearchEngine

\* the call is made and returns
Search ==
    /\ ~s_call.done
    /\ \E text_results \in {TextResults(ts, s_call)} :
          \E order \in Orders(AllCandidates(s_call, text_results)) :
             s_call' = SearchResults(s_call, text_results, order)
    /\ UNCHANGED <<pipeline_vars, embed_vars, ts, ts_call, js_call, app, own_text>>

NextSearch == Search
SpecSearch == InitSearch /\ [][NextSearch]_vars

(***************************************************************************)
(* JSParser._extract_block (js_parser.py) on its own: the scan from an     *)
(* opening brace or parenthesis to the end of its block.                   *)
(***************************************************************************)
\* source[pos], positions counted from 0 as in the code
At(source, pos) == source[pos + 1]
\* source[lo:hi]
Slice(source, lo, hi) == SubSeq(source, lo + 1, hi)
\* source[:pos].rfind('\n')
LastNewline(source, pos) ==
    LET at == {i \in 0..(pos - 1) : At(source, i) = "\n"}
    IN  IF at = {} THEN -1 ELSE CHOOSE i \in at : \A j \in at : j <= i
\* the character ` (a TLA+ string cannot hold it)
Backtick == "backtick"
\* the characters that open and close a string literal
StringChars == {"\"", "'", Backtick}

\* one pass of the while loop that counts braces inside string literals too
ScanCharInStrings(call) ==
    LET char == At(call.source, call.pos)
        toggles == char \in StringChars
                     /\ (call.pos = 0 \/ At(call.source, call.pos - 1) # "\\")
        in_string == IF toggles /\ ~call.in_string THEN TRUE
                     ELSE IF toggles /\ char = call.string_char THEN FALSE
                     ELSE call.in_string
    IN  [call EXCEPT
            !.in_string = in_string,
            !.string_char = IF toggles /\ ~call.in_string THEN char ELSE @,
            !.depth = IF char = call.open_char THEN @ + 1
                      ELSE IF char = call.close_char THEN @ - 1
                      ELSE @,
            !.pos = @ + 1]

\* one pass of the while loop of _extract_block
ScanChar(call) ==
    LET char == At(call.source, call.pos)
        toggles == char \in StringChars
                     /\ (call.pos = 0 \/ At(call.source, call.pos - 1) # "\\")
        in_string == IF toggles /\ ~call.in_string THEN TRUE
                     ELSE IF toggles /\ char = call.string_char THEN FALSE
                     ELSE call.in_string
    IN  [call EXCEPT
            !.in_string = in_string,
            !.string_char = IF toggles /\ ~call.in_string THEN char ELSE @,
            !.depth = IF ~in_string /\ char = call.open_char THEN @ + 1
                      ELSE IF ~in_string /\ char = call.close_char THEN @ - 1
                      ELSE @,
            !.pos = @ + 1]

\* _extract_block is entered: the early return, or the locals before the loop
ExtractBlockEnter ==
    /\ js_call.pc = "call"
    /\ js_call' =
          IF \/ js_call.brace_pos >= Len(js_call.source)
             \/ At(js_call.source, js_call.brace_pos) \notin {"{", "("}
          THEN [js_call EXCEPT !.pc = "done", !.code = <<>>,
                               !.end_line = js_call.start_line]
          ELSE LET open_char == At(js_call.source, js_call.brace_pos)
               IN  [js_call EXCEPT
                       !.pc = "while",
                       !.open_char = open_char,
                       !.close_char = IF open_char = "{" THEN "}" ELSE ")",
                       !.depth = 1,
                       !.pos = js_call.brace_pos + 1,
                       !.in_string = FALSE,
                       !.string_char = None]
    /\ UNCHANGED <<pipeline_vars, embed_vars, ts, ts_call, s_call, app, own_text>>

\* while pos < len(source) and depth > 0: one pass
ExtractBlockScan ==
    /\ js_call.pc = "while"
    /\ js_call.pos < Len(js_call.source) /\ js_call.depth > 0
    /\ js_call' = ScanChar(js_call)
    /\ UNCHANGED <<pipeline_vars, embed_vars, ts, ts_call, s_call, app, own_text>>

\* the loop is left: the block, from the start of the opener's line, and the
\* line it ends on
ExtractBlockReturn ==
    /\ js_call.pc = "while"
    /\ ~(js_call.pos < Len(js_call.source) /\ js_call.depth > 0)
    /\ LET block_start == LastNewline(js_call.source, js_call.brace_pos) + 1
           code == Slice(js_call.source, block_start, js_call.pos)
       IN  js_call' = [js_call EXCEPT
                          !.pc = "done",
                          !.code = code,
                          !.end_line = js_call.start_line + Count(code, "\n")]
    /\ UNCHANGED <<pipeline_vars, embed_vars, ts, ts_call, s_call, app, own_text>>

\* the sources _extract_block is called on: an opener followed by up to
\* MaxTail characters that matter to the scan, ...
MaxTail == 4
TailChars == {"{", "}", "'", "\"", Backtick, "\\"}
RECURSIVE Tails(_)
Tails(n) ==
    IF n = 0 THEN {<<>>}
    ELSE Tails(n - 1) \cup {<<char>> \o tail : char \in TailChars, tail \in Tails(n - 1)}
\* ... the same with the parentheses for the braces, ...
Swapped(source) ==
    [i \in 1..Len(source) |->
        CASE source[i] = "{" -> "("
          [] source[i] = "}" -> ")"
          [] source[i] = "(" -> "{"
          [] OTHER -> source[i]]
\* ... an arrow binding with a template literal in its body, between two
\* other statements, ...
Preceding == <<"a", ";", "\n">>
ArrowBinding ==
    <<"c", "o", "n", "s", "t", " ", "f", " ", "=", " ", "(", "d", ")", " ", "=", ">",
      " ", "{", "\n", " ", "t", " ", "=", " ", Backtick, "-", "$", "{", "d", "}", "p",
      "x", Backtick, ";", "\n", "}">>
Following == <<"\n", "g", ";">>
ArrowSource == Preceding \o ArrowBinding \o Following
\* match.end() - 1 of the arrow pattern: the brace that opens the body
ArrowBrace ==
    Len(Preceding) + (CHOOSE i \in 1..Len(ArrowBinding) :
                         /\ ArrowBinding[i] = "{"
                         /\ \A j \in 1..(i - 1) : ArrowBinding[j] # "{") - 1
\* ... the other opener inside a block, and positions that are not on an opener
BlockInputs ==
    {[NoBlock EXCEPT !.pc = "call", !.source = <<"{">> \o tail] : tail \in Tails(MaxTail)}
    \cup {[NoBlock EXCEPT !.pc = "call", !.source = Swapped(<<"{">> \o tail)] :
             tail \in Tails(MaxTail)}
    \cup {[NoBlock EXCEPT !.pc = "call", !.source = ArrowSource, !.brace_pos = ArrowBrace,
                          !.start_line = 2],
          [NoBlock EXCEPT !.pc = "call", !.source = <<"{", "(", "}", ")">>],
          [NoBlock EXCEPT !.pc = "call", !.source = <<"(", "{", ")", "}">>],
          [NoBlock EXCEPT !.pc = "call", !.source = ArrowSource, !.brace_pos = 0],
          [NoBlock EXCEPT !.pc = "call", !.source = <<"{", "}">>, !.brace_pos = 2]}

InitBlock ==
    /\ vector_store = <<>>
    /\ symbols_tbl = <<>>
    /\ files_tbl = {}
    /\ documents = <<>>
    /\ pc = [t \in Threads |-> "idle"]
    /\ loc = [t \in Threads |-> IdleLoc]
    /\ outcome = [t \in Threads |-> NoOutcome]
    /\ cleared_last = "no"
    /\ assigned = <<>>
    /\ epoch = [text |-> 0, vector |-> 0, metadata |-> 0]
    /\ ever_raised = FALSE
    /\ e_cache = <<>>
    /\ e_call = NoCall
    /\ ts = NoEngine
    /\ ts_call = NoTextCall
    /\ s_call = NoSearch
    /\ js_call \in BlockInputs
    /\ app = Started
    /\ own_text = NoSearchEngine

NextBlock ==
    \/ ExtractBlockEnter
    \/ ExtractBlockScan
    \/ ExtractBlockReturn
\* a call that has started runs on: nothing else takes its turn
SpecBlock == InitBlock /\ [][NextBlock]_vars /\ WF_vars(NextBlock)

(***************************************************************************)
(* SearchEngine._build_text_index (search.py) and the lifespan of the      *)
(* application (main.py).                                                  *)
(***************************************************************************)
\* _build_text_index: every row of the symbols table is added to the lexical
\* index under its embedding_id, in the order of the rows
RECURSIVE _build_text_index(_, _)
_build_text_index(docs, rows) ==
    IF rows = <<>> THEN docs
    ELSE LET row == Head(rows)
             symbol_data == [name |-> row.name, symbol_type |-> row.symbol_type,
                             node |-> row.node, path |-> row.file_id]
         IN  _build_text_index(add_documents_batch(docs, row.embedding_id :> symbol_data),
                               Tail(rows))

\* rebuild_text_index: clear, then _build_text_index
rebuild_text_index(rows) == _build_text_index(<<>>, rows)

\* the files indexed between the restarts
LifePaths == {"flat", "inner"}

\* the shutdown half of lifespan: the vector index is saved when it holds a
\* vector, and the process, with its VectorStore and TextSearchEngine, ends
Shutdown ==
    /\ app.running
    /\ \A t \in Threads : pc[t] = "idle"
    /\ app' = IF vector_count(vector_store) > 0
              THEN [running |-> FALSE, saved_exists |-> TRUE, saved |-> vector_store]
              ELSE [app EXCEPT !.running = FALSE]
    /\ vector_store' = <<>>
    /\ documents' = <<>>
    /\ UNCHANGED <<symbols_tbl, files_tbl, pc, loc, outcome, cleared_last, assigned,
                   epoch, ever_raised, embed_vars, ts, ts_call, s_call, js_call,
                   own_text>>

\* the startup half of lifespan: new stores on the metadata database that is
\* there, a SearchEngine on the empty TextSearchEngine (it builds the lexical
\* index), and, when vectors.index exists, load and rebuild_text_index
Startup ==
    /\ ~app.running
    /\ app' = [app EXCEPT !.running = TRUE]
    /\ vector_store' = IF app.saved_exists THEN app.saved ELSE <<>>
    /\ documents' = IF app.saved_exists THEN rebuild_text_index(symbols_tbl)
                    ELSE _build_text_index(<<>>, symbols_tbl)
    /\ cleared_last' = "no"
    /\ UNCHANGED <<symbols_tbl, files_tbl, pc, loc, outcome, assigned, epoch,
                   ever_raised, embed_vars, ts, ts_call, s_call, js_call, own_text>>

\* one caller, stores that never fail, and restarts of the process
NextLife ==
    \/ \E path \in LifePaths : app.running /\ index_file(1, path)
    \/ app.running /\ clear_index(1)
    \/ app.running /\ search(1)
    \/ Statement(1, {FALSE}, {FALSE})
    \/ Shutdown
    \/ Startup
SpecLife == Init /\ [][NextLife]_vars

\* SearchEngine(embedder, vector_store, metadata_store): without a
\* text_search it makes a TextSearchEngine and builds its index
NewSearchEngine ==
    /\ \A t \in Threads : pc[t] = "idle"
    /\ own_text' = [built |-> TRUE, documents |-> _build_text_index(<<>>, symbols_tbl)]
    /\ UNCHANGED <<pipeline_vars, embed_vars, ts, ts_call, s_call, js_call, app>>

\* one caller indexes, clears and searches through the SearchEngine that shares
\* the Indexer's lexical index, and builds search engines that do not
NextOwn ==
    \/ \E path \in LifePaths : index_file(1, path)
    \/ clear_index(1)
    \/ search(1)
    \/ Statement(1, {FALSE}, {FALSE})
    \/ NewSearchEngine
SpecOwn == Init /\ [][NextOwn]_vars

\* the embedder alone
NextEmbed == BatchGenerate
SpecEmbed == Init /\ [][NextEmbed]_vars

(***************************************************************************)
(* Properties.                                                             *)
(***************************************************************************)
AllIdle == \A t \in Threads : pc[t] = "idle"
VectorIds == {i - 1 : i \in 1..Len(vector_store)}
MetadataIds == {symbols_tbl[i].embedding_id : i \in 1..Len(symbols_tbl)}
DocumentIds == DOMAIN documents
SearchOps == {"search", "find_similar_code", "search_by_name", "get_symbol_by_name",
              "get_stats"}

\* C1: one caller, starting from an empty index: the ids given to symbol records
\* are 0, 1, 2, ... in order of assignment with no gap and no repeat, as many as
\* there are vectors; the id of a symbol is the position of its own vector; and
\* within a file the ids follow the flattened order: the functions first, then
\* each class directly followed by its methods.
C1_ContiguousIds ==
    /\ \A i \in 1..Len(assigned) :
          /\ assigned[i].id = i - 1
          /\ i <= Len(vector_store)
          /\ vector_store[i].meta.file_path = assigned[i].path
          /\ vector_store[i].meta.symbol_name = assigned[i].name
          /\ vector_store[i].meta.symbol_type = assigned[i].type
          /\ assigned[i].k > 1 =>
                /\ i > 1
                /\ assigned[i - 1].path = assigned[i].path
                /\ assigned[i - 1].k = assigned[i].k - 1
          /\ (assigned[i].type = "function" /\ assigned[i].k > 1) =>
                assigned[i - 1].type = "function"
          /\ assigned[i].type = "method" =>
                /\ assigned[i].k > 1
                /\ \/ /\ assigned[i - 1].type = "class"
                      /\ assigned[i - 1].name = assigned[i].parent_class
                   \/ /\ assigned[i - 1].type = "method"
                      /\ assigned[i - 1].parent_class = assigned[i].parent_class
    /\ pc[1] # "is_meta_add" => Len(assigned) = Len(vector_store)

\* C1 witness: a second index_file call has taken the range after the first one's
C1_Witness ==
    /\ AllIdle
    /\ Len(assigned) = 4
    /\ assigned[3].k = 1
    /\ assigned[3].id = 2
    /\ Len(symbols_tbl) = 4

\* C2: when no call is in progress and no call has raised, the vector index, the
\* metadata store and the lexical index hold the same embedding ids, and the
\* metadata store holds one record per id.
C2_OneToOne ==
    (AllIdle /\ ~ever_raised) =>
        /\ VectorIds = MetadataIds
        /\ MetadataIds = DocumentIds
        /\ \A id \in MetadataIds : Cardinality(RowsOf(symbols_tbl, id)) = 1

\* C3: a completed search whose index reads returned candidates has read all
\* three stores in the same state with respect to clear_index: each of its three
\* reads saw the same number of clears applied to the store it read.
C3_NoMixedObservation ==
    \A t \in Threads :
        (outcome[t].op = "search" /\ outcome[t].obs.candidates > 0) =>
            /\ outcome[t].obs.text = outcome[t].obs.vector
            /\ outcome[t].obs.vector = outcome[t].obs.metadata

\* C4: the id range an index_file call assigns, which starts at the vector count
\* it read before its append, is the range of positions its own vectors occupy.
C4_OwnRange ==
    \A t \in Threads :
        pc[t] \in {"is_meta_add", "is_text_add"} => loc[t].start = loc[t].appended_at

\* C5: a search, find_similar_code, search_by_name or get_symbol_by_name that is
\* the first call after a clear_index returns nothing, and get_stats then
\* reports 0 symbols.
C5_EmptyAfterClear ==
    \A t \in Threads :
        (outcome[t].op \in SearchOps /\ outcome[t].after_clear) =>
            /\ outcome[t].result = {}
            /\ outcome[t].total = 0

\* C5 witness: a search by name has run right after a clear_index of an index
\* that held symbols
C5_Witness ==
    /\ outcome[1].op = "search_by_name"
    /\ outcome[1].after_clear
    /\ outcome[1].cleared = "nonempty"

\* C6: a call during which a store write raised ends by raising to its caller.
C6_FailurePropagates ==
    \A t \in Threads : outcome[t].store_failed => outcome[t].status = "raised"

\* C7: after an index_file call has ended with an error, the vector index, the
\* metadata store and the lexical index hold the same entries for its file.
C7_NoHalfWritten ==
    \A t \in Threads :
        (outcome[t].op = "index_file" /\ outcome[t].status = "raised") =>
            LET path == outcome[t].path
                vec == {i - 1 : i \in {j \in 1..Len(vector_store) :
                                          vector_store[j].meta.file_path = path}}
                rec == {symbols_tbl[i].embedding_id :
                           i \in {j \in 1..Len(symbols_tbl) : symbols_tbl[j].file_id = path}}
                doc == {d \in DocumentIds : documents[d].path = path}
            IN  vec = rec /\ rec = doc

\* the files of a listing that cannot be parsed
Unparsed(listing) ==
    {i \in 1..Len(all_files(listing)) : ~parse_file(all_files(listing)[i]).ok}

\* C8: index_directory counts every file whose parse failed as failed and not
\* as processed.
C8_ParseFailureCounted ==
    \A t \in Threads :
        outcome[t].op = "index_directory" =>
            /\ outcome[t].stats.files_failed >= Cardinality(Unparsed(outcome[t].listing))
            /\ outcome[t].stats.files_processed
                  <= Len(all_files(outcome[t].listing))
                     - Cardinality(Unparsed(outcome[t].listing))

\* the function and class definitions in a file
Definitions(path) ==
    {n \in 1..Len(Files[path].tree) :
        Files[path].tree[n].type \in {"function_definition", "class_definition"}}
RECURSIVE TotalDefinitions(_)
TotalDefinitions(paths) ==
    IF paths = <<>> THEN 0
    ELSE Cardinality(Definitions(Head(paths))) + TotalDefinitions(Tail(paths))

\* C9: for a directory of N valid files with S definitions, and no store
\* failure, index_directory reports N files processed, none failed and S symbols,
\* the sum of the functions, classes and methods it reports.
C9_DirectoryCounts ==
    \A t \in Threads :
        (/\ outcome[t].op = "index_directory"
         /\ ~outcome[t].store_failed
         /\ Unparsed(outcome[t].listing) = {}) =>
            LET stats == outcome[t].stats
                files == all_files(outcome[t].listing)
            IN  /\ stats.files_processed = Len(files)
                /\ stats.files_failed = 0
                /\ stats.total_symbols = TotalDefinitions(files)
                /\ stats.total_symbols = stats.functions_indexed
                      + stats.classes_indexed + stats.methods_indexed

\* in a batch_generate call: the offset of the sub-batch that computes text i
BatchOf(call, i) ==
    LET rank == Cardinality({j \in 1..(i - 1) : call.codes[j] \notin DOMAIN call.cache})
    IN  (rank \div call.batch_size) * call.batch_size

\* C10: batch_generate returns one vector per text, in the order of the texts:
\* the cached vector of a cached text, the zero vector for a text of a failing
\* sub-batch, and the text's own embedding otherwise.
C10_OneVectorPerText ==
    /\ Len(e_call.out) = Len(e_call.codes)
    /\ \A i \in 1..Len(e_call.codes) :
          e_call.out[i] =
              IF e_call.codes[i] \in DOMAIN e_call.cache
              THEN e_call.cache[e_call.codes[i]]
              ELSE IF BatchOf(e_call, i) \in e_call.failing
                   THEN ZeroVec
                   ELSE Emb(e_call.codes[i])

\* C10 witness: a call with a cache hit, then a text of a failing sub-batch, then
\* a text of a later sub-batch that succeeded
C10_Witness ==
    /\ Len(e_call.codes) = 3
    /\ e_call.codes[1] \in DOMAIN e_call.cache
    /\ e_call.codes[2] \notin DOMAIN e_call.cache
    /\ e_call.out[2] = ZeroVec
    /\ e_call.codes[3] \notin DOMAIN e_call.cache
    /\ e_call.out[3] = Emb(e_call.codes[3])

(***************************************************************************)
(* The lexical engine (SpecText).                                          *)
(***************************************************************************)
TextOut(i) == ts_call.out[i]
DocFreq(term) == Cardinality(Postings(ts, term))

C18_IdfMonotone ==
    ts_call.op = "idf" =>
        /\ ts_call.value >= 0
        /\ \A term \in IdfTerms :
              DocFreq(term) > DocFreq(ts_call.arg) => idf(ts, term) <= ts_call.value

\* C19: autocomplete returns at most limit terms; each is a key of the index
\* outside the stem: namespace that starts with the lower-cased prefix, none
\* is returned twice, and their document frequencies never increase.
C19_Autocomplete ==
    ts_call.op = "autocomplete" =>
        /\ Len(ts_call.out) <= ts_call.limit
        /\ \A i \in 1..Len(ts_call.out) :
              /\ TextOut(i) \in DOMAIN ts.inverted_index
              /\ StartsWith(TextOut(i), Lower(ts_call.arg))
              /\ ~StartsWith(TextOut(i), StemPrefix)
        /\ \A i, j \in 1..Len(ts_call.out) :
              i < j => TextOut(i) # TextOut(j) /\ DocFreq(TextOut(i)) >= DocFreq(TextOut(j))

\* an upper-case prefix that stem: keys match too, answered with two terms
\* of different document frequency
C19_Witness ==
    /\ ts_call.op = "autocomplete"
    /\ ts_call.arg # Lower(ts_call.arg)
    /\ \E key \in DOMAIN ts.inverted_index :
          StartsWith(key, StemPrefix) /\ StartsWith(key, Lower(ts_call.arg))
    /\ Len(ts_call.out) = 2
    /\ DocFreq(TextOut(1)) > DocFreq(TextOut(2))

(***************************************************************************)
(* The hybrid search (SpecSearch).                                         *)
(***************************************************************************)
\* dict.get(id, 0.0)
ScoreIn(scores, id) == IF id \in DOMAIN scores THEN scores[id] ELSE 0
Out(i) == s_call.out[i]
\* the normalised lexical score and the semantic score that went into a result
LexicalOf(i) == ScoreIn(s_call.text_scores, Out(i).embedding_id)
SemanticOf(i) == ScoreIn(s_call.vector_results, Out(i).embedding_id)

\* C11: every result whose normalised lexical score is positive has the score
\* 0.8 * lexical + 0.2 * semantic and a match_info that starts with
\* "Keywords:"; every other result has the score 0.4 * semantic and the
\* match_info "Semantic similarity only"; semantic is 0 for an id the vector
\* store did not return (scores in 1/Scale, rounded down).
C11_FusionRule ==
    s_call.done =>
        \A i \in 1..Len(s_call.out) :
            IF LexicalOf(i) > 0
            THEN /\ 10 * Out(i).similarity_score <= 8 * LexicalOf(i) + 2 * SemanticOf(i)
                 /\ 8 * LexicalOf(i) + 2 * SemanticOf(i) < 10 * Out(i).similarity_score + 10
                 /\ Out(i).match_info.text = "Keywords: "
            ELSE /\ 10 * Out(i).similarity_score <= 4 * SemanticOf(i)
                 /\ 4 * SemanticOf(i) < 10 * Out(i).similarity_score + 10
                 /\ Out(i).match_info = [text |-> "Semantic similarity only", terms |-> <<>>]

\* one search returns a lexical match that the vector store returned too, a
\* lexical match that it did not return, and a result without lexical match
C11_Witness ==
    /\ s_call.done
    /\ \E i, j, k \in 1..Len(s_call.out) :
          /\ LexicalOf(i) > 0 /\ SemanticOf(i) > 0
          /\ LexicalOf(j) > 0 /\ Out(j).embedding_id \notin DOMAIN s_call.vector_results
          /\ LexicalOf(k) = 0 /\ SemanticOf(k) > 0 /\ Out(k).similarity_score > 0

\* C12 as claimed: every result with a positive lexical score has a score not
\* below 0.4 * semantic, the score of a candidate with the same semantic score
\* and no lexical score.
C12_LexicalNeverLower ==
    s_call.done =>
        \A i \in 1..Len(s_call.out) :
            LexicalOf(i) > 0 => Out(i).similarity_score >= (4 * SemanticOf(i)) \div 10

\* C12 as amended: every result whose normalised lexical score is positive and
\* at least a quarter of its semantic score has a score not below
\* 0.4 * semantic.
C12_LexicalNotLowerFromAQuarter ==
    s_call.done =>
        \A i \in 1..Len(s_call.out) :
            LexicalOf(i) > 0 /\ 4 * LexicalOf(i) >= SemanticOf(i) =>
                Out(i).similarity_score >= (4 * SemanticOf(i)) \div 10

\* a result with a lexical score below 1 and above a quarter of its semantic
\* score, which is the largest there is
C12_Witness ==
    /\ s_call.done
    /\ \E i \in 1..Len(s_call.out) :
          /\ LexicalOf(i) > 0 /\ LexicalOf(i) < SemanticOf(i)
          /\ 4 * LexicalOf(i) >= SemanticOf(i)
          /\ SemanticOf(i) = Scale

\* the words of a query, of which tokenize keeps those that are no stopwords
Words(query) == FindAll(ReplaceUnderscores(SplitCamel(Lower(query))))

\* C13: a search whose query is empty, blank or made of stopwords only
\* returns an empty list, whatever the index holds.
C13_NoTermsNoResults ==
    s_call.done /\ (\A i \in 1..Len(Words(s_call.query)) :
                       Words(s_call.query)[i] \in stopwords)
        => s_call.out = <<>>

\* the candidates of the call that have a metadata row, with the symbol type,
\* the file path and the fused score of each
Resolved ==
    {id \in DOMAIN s_call.text_scores \cup DOMAIN s_call.vector_results :
        id + 1 <= s_call.rows}
TypeOf(id) == IndexedSymbols[id + 1].symbol.symbol_type
PathOf(id) == IndexedFiles[IndexedSymbols[id + 1].file_id]
FusedOf(id) ==
    FinalScore(ScoreIn(s_call.text_scores, id), ScoreIn(s_call.vector_results, id))
\* those that pass every filter given
Passing ==
    {id \in Resolved :
        /\ FusedOf(id) >= s_call.min_similarity
        /\ s_call.symbol_type # NoFilter => TypeOf(id) = s_call.symbol_type
        /\ s_call.file_path_filter # NoFilter =>
              Contains(Lower(PathOf(id)), Lower(s_call.file_path_filter))}
OutIds == {Out(i).embedding_id : i \in 1..Len(s_call.out)}

\* C14: every result has a score of at least min_similarity, the symbol type
\* asked for when one is given, and a file path that contains the path filter,
\* letter case ignored, when one is given; and when the list is shorter than
\* the limit, every candidate passing these filters is in it.
C14_Filters ==
    s_call.done =>
        /\ \A i \in 1..Len(s_call.out) :
              /\ Out(i).similarity_score >= s_call.min_similarity
              /\ s_call.symbol_type # NoFilter =>
                    Out(i).symbol_type = s_call.symbol_type
              /\ s_call.file_path_filter # NoFilter =>
                    Contains(Lower(Out(i).file_path), Lower(s_call.file_path_filter))
        /\ Len(s_call.out) < s_call.limit => Passing \subseteq OutIds

\* all three filters given, the path filter in another case than the path,
\* each filter alone dropping a candidate, and a result left
C14_Witness ==
    /\ s_call.done
    /\ s_call.min_similarity > 0
    /\ s_call.symbol_type # NoFilter
    /\ s_call.file_path_filter # NoFilter
    /\ s_call.out # <<>>
    /\ Len(s_call.out) < s_call.limit
    /\ \A i \in 1..Len(s_call.out) :
          ~Contains(Out(i).file_path, s_call.file_path_filter)
    /\ \E id \in Resolved : TypeOf(id) # s_call.symbol_type
    /\ \E id \in Resolved :
          ~Contains(Lower(PathOf(id)), Lower(s_call.file_path_filter))
    /\ \E id \in Resolved : FusedOf(id) < s_call.min_similarity

\* C15: the results are in descending order of score and at most limit; each
\* is a candidate that passed the filters, none twice, and no candidate that
\* passed and is left out has a higher score than one that is returned.
C15_RankedAndCut ==
    s_call.done =>
        /\ Len(s_call.out) <= s_call.limit
        /\ \A i, j \in 1..Len(s_call.out) :
              i < j => /\ Out(i).similarity_score >= Out(j).similarity_score
                       /\ Out(i).embedding_id # Out(j).embedding_id
        /\ OutIds \subseteq Passing
        /\ \A i \in 1..Len(s_call.out) : Out(i).similarity_score = FusedOf(Out(i).embedding_id)
        /\ \A id \in Passing \ OutIds :
              /\ Len(s_call.out) = s_call.limit
              /\ \A i \in 1..Len(s_call.out) : FusedOf(id) <= Out(i).similarity_score

\* two results of different scores, and a third candidate with a lower score
\* cut by the limit
C15_Witness ==
    /\ s_call.done
    /\ Len(s_call.out) = 2
    /\ Out(1).similarity_score > Out(2).similarity_score
    /\ \E id \in Passing \ OutIds : FusedOf(id) < Out(2).similarity_score

(***************************************************************************)
(* The read operations on an index (SpecRead).                             *)
(***************************************************************************)
\* the symbols extracted from a file
Extracted(path) == _extract_python_symbols(parse_file(path))
\* index_file(path) has completed and the index was not cleared since
Indexed(path) ==
    /\ path \in files_tbl
    /\ \A k \in 1..Len(Extracted(path)) :
          \E i \in 1..Len(symbols_tbl) :
              /\ symbols_tbl[i].file_id = path
              /\ symbols_tbl[i].node = Extracted(path)[k].node

\* C16: for every symbol extracted from an indexed file, get_symbol_by_name
\* called with the symbol's name and the file's path returns a result with the
\* start_line and the end_line of that symbol.
C16_RoundTrip ==
    \A path \in ReadPaths :
        \A k \in 1..Len(Extracted(path)) :
            /\ pc[1] = "idle"
            /\ Indexed(path)
            /\ outcome[1].op = "get_symbol_by_name"
            /\ outcome[1].name = Extracted(path)[k].name
            /\ outcome[1].path = path
            => \E r \in outcome[1].result :
                  /\ r.start_line = Extracted(path)[k].start_line
                  /\ r.end_line = Extracted(path)[k].end_line

ReadOps == {"search", "find_similar_code", "search_by_name", "get_symbol_by_name",
            "autocomplete"}

\* C20: no step of search, find_similar_code, search_by_name,
\* get_symbol_by_name or autocomplete changes the vector index, the metadata
\* store or the lexical index.
C20_ReadsLeaveStores ==
    [][(\/ pc[1] \in {"se_text", "se_vector", "se_metadata"}
        \/ pc'[1] = "se_text"
        \/ pc[1] = "idle" /\ pc'[1] = "idle" /\ outcome'[1].op \in ReadOps)
       => UNCHANGED <<vector_store, symbols_tbl, files_tbl, documents>>]_vars

\* find_similar_code has answered from an index that holds symbols
C20_Witness ==
    /\ outcome[1].op = "find_similar_code"
    /\ outcome[1].result # {}
    /\ vector_store # <<>> /\ symbols_tbl # <<>> /\ documents # <<>>

(***************************************************************************)
(* Files the indexer has no parser for (Spec).                             *)
(***************************************************************************)
\* C21: index_file on a file whose extension is not supported leaves no row
\* of that file in any store and does not count the file as failed.
C21_UnsupportedNotFailed ==
    \A t \in Threads :
        outcome[t].op = "index_file" /\ Files[outcome[t].path].ext \notin all_extensions
            => /\ outcome[t].stats.files_failed = 0
               /\ outcome[t].path \notin files_tbl
               /\ \A i \in 1..Len(symbols_tbl) : symbols_tbl[i].file_id # outcome[t].path

(***************************************************************************)
(* The normalisation of the lexical scores (SpecSearch).                   *)
(***************************************************************************)
\* C22: the normalised lexical scores of a search lie in (0, 1], and when
\* there is a lexical candidate the best one has the normalised score 1.
C22_NormalizedByMaximum ==
    s_call.done =>
        /\ \A id \in DOMAIN s_call.text_scores :
              s_call.text_scores[id] > 0 /\ s_call.text_scores[id] <= Scale
        /\ DOMAIN s_call.text_scores # {} =>
              \E id \in DOMAIN s_call.text_scores : s_call.text_scores[id] = Scale

(***************************************************************************)
(* Tokens, rescoring, fuzzy recovery and the postings (SpecText).          *)
(***************************************************************************)
\* the snake_case spelling of an identifier: an underscore between a lower-case
\* letter and the upper-case letter that follows it, all letters lower-case
SnakeCase(text) ==
    Lower(Flatten([i \in 1..Len(text) |->
                      IF /\ i < Len(text)
                         /\ text[i] \in LowerLetters
                         /\ text[i + 1] \in UpperLetters
                      THEN <<text[i], "_">>
                      ELSE <<text[i]>>],
                  1, Len(text)))

\* C23: tokenize gives an identifier the tokens of its snake_case spelling.
C23_CamelLikeSnake ==
    ts_call.op = "tokenize" => ts_call.out = tokenize(SnakeCase(ts_call.arg))

\* the raw terms of the index: its keys outside the stem: namespace
RawTerms == {term \in DOMAIN ts.inverted_index : ~StartsWith(term, StemPrefix)}
\* the documents whose current token list holds the term
Holding(term) ==
    {doc_id \in DOMAIN ts.documents :
        \E i \in 1..Len(ts.documents[doc_id].tokens) :
            ts.documents[doc_id].tokens[i] = term}
\* the ids of the results a search returned
TextOutIds == {TextOut(i).symbol_id : i \in 1..Len(ts_call.out)}

\* C24: when no expanded token of the query has a posting, raw or stemmed, the
\* query has at most 3 tokens, and one of them, of 4 characters or more, is
\* at edit distance 1 from a raw term of the index, then search (its limit not
\* below the number of documents) returns the documents that hold the term.
C24_FuzzyRecovers ==
    LET query_tokens == tokenize(ts_call.arg)
    IN  /\ ts_call.op = "search"
        /\ ts_call.limit >= ts.doc_count
        /\ Len(query_tokens) <= 3
        /\ \A token \in expand_query(query_tokens) :
              Postings(ts, token) = {} /\ Postings(ts, StemKey(stem(token))) = {}
        => \A i \in 1..Len(query_tokens) : \A term \in RawTerms :
              /\ Len(query_tokens[i]) >= 4
              /\ levenshtein_distance(query_tokens[i], term) = 1
              /\ Holding(term) # {}
              => ts_call.out # <<>> /\ Holding(term) \subseteq TextOutIds

\* what bm25_score gives a returned document for the tokens of the query, and
\* for the expanded tokens
PrimaryOf(i) == bm25_score(ts, TextOut(i).symbol_id, tokenize(ts_call.arg))
ExpandedOf(i) ==
    bm25_score(ts, TextOut(i).symbol_id, ListOf(expand_query(tokenize(ts_call.arg))))
Marked(term) == Len(term) > 0 /\ term[1] = "~"

\* C25: every result of search has a positive score.  It is the score for the
\* query's own tokens, with the matched terms of that scoring, unless that
\* score is zero; then it is 0.7 times the score for the expanded tokens and
\* every matched term starts with ~.  A result has a matched term without ~
\* exactly when a token of the query is a raw token of the document.
C25_PrimaryThenExpanded ==
    ts_call.op = "search" =>
        \A i \in 1..Len(ts_call.out) :
            /\ TextOut(i).score > 0
            /\ IF PrimaryOf(i).score > 0
               THEN /\ TextOut(i).score = PrimaryOf(i).score
                    /\ TextOut(i).matched_terms = PrimaryOf(i).matched_terms
               ELSE /\ 10 * TextOut(i).score <= 7 * ExpandedOf(i).score
                    /\ 7 * ExpandedOf(i).score < 10 * TextOut(i).score + 10
                    /\ Len(TextOut(i).matched_terms) = Len(ExpandedOf(i).matched_terms)
                    /\ \A term \in Range(TextOut(i).matched_terms) : Marked(term)
            /\ (\E term \in Range(TextOut(i).matched_terms) : ~Marked(term))
                  <=> (\E token \in Range(tokenize(ts_call.arg)) :
                          TextOut(i).symbol_id \in Holding(token))

\* a search returns a document that holds the query's token and a document
\* that only the expanded tokens reach
C25_Witness ==
    /\ ts_call.op = "search"
    /\ \E i, j \in 1..Len(ts_call.out) :
          /\ PrimaryOf(i).score > 0
          /\ \E term \in Range(TextOut(i).matched_terms) : ~Marked(term)
          /\ PrimaryOf(j).score = 0
          /\ TextOut(j).matched_terms # <<>>

\* C28: whatever was added and cleared, the postings of a raw term are the
\* documents whose current token list holds it, doc_count is the number of
\* stored documents, and avg_doc_length is the sum of their lengths over
\* doc_count (0 when there is none).
C28_IndexConsistent ==
    /\ \A term \in RawTerms : Postings(ts, term) = Holding(term)
    /\ \A doc_id \in DOMAIN ts.documents :
          \A term \in Range(ts.documents[doc_id].tokens) : doc_id \in Postings(ts, term)
    /\ ts.doc_count = Cardinality(DOMAIN ts.documents)
    /\ ts.avg_doc_length =
          IF ts.doc_count = 0 THEN [total |-> 0, count |-> 1]
          ELSE [total |-> SumLengths([doc_id \in DOMAIN ts.documents |->
                                         Len(ts.documents[doc_id].tokens)],
                                     DOMAIN ts.documents),
                count |-> ts.doc_count]

(***************************************************************************)
(* The functions and methods of a Python file (Spec).                      *)
(***************************************************************************)
\* the nodes above node n of a tree, nearest first
RECURSIVE Ancestors(_, _)
Ancestors(tree, n) ==
    LET above == {m \in 1..Len(tree) : \E i \in 1..Len(tree[m].children) :
                                          tree[m].children[i] = n}
    IN  IF above = {} THEN <<>>
        ELSE LET m == CHOOSE m \in above : TRUE IN <<m>> \o Ancestors(tree, m)
\* the class definitions node n is lexically nested in, nearest first
EnclosingClasses(tree, n) ==
    SelectSeq(Ancestors(tree, n), LAMBDA m : tree[m].type = "class_definition")
\* the entries of a list of symbols made from node n
EntriesOf(symbols, n) == {i \in 1..Len(symbols) : symbols[i].node = n}

\* C26: of the symbols extracted from a Python file, a function definition
\* nested in a class definition has one entry, a method of its enclosing
\* class, and every other function definition has one entry, a function.
C26_FunctionsPartitioned ==
    \A t \in Threads :
        pc[t] = "is_embed" /\ loc[t].op = "index_file" =>
            LET tree == Files[loc[t].path].tree
                symbols == loc[t].symbols
            IN  \A n \in 1..Len(tree) :
                    tree[n].type = "function_definition" =>
                        /\ Cardinality(EntriesOf(symbols, n)) = 1
                        /\ \A i \in EntriesOf(symbols, n) :
                              IF EnclosingClasses(tree, n) = <<>>
                              THEN symbols[i].type = "function"
                              ELSE /\ symbols[i].type = "method"
                                   /\ symbols[i].parent_class
                                         = tree[EnclosingClasses(tree, n)[1]].name

(***************************************************************************)
(* The scanner for the end of a block (SpecBlock).                         *)
(***************************************************************************)
\* the scanner's state outside every string literal
Normal == "Normal"
\* the scanner that starts on the opener at brace_pos, after the character at
\* position p: Normal or the delimiter of the string it is in, and the depth
RECURSIVE Scanner(_, _, _)
Scanner(source, brace_pos, p) ==
    IF p = brace_pos THEN [state |-> Normal, depth |-> 1]
    ELSE LET before == Scanner(source, brace_pos, p - 1)
             char == At(source, p)
             opener == At(source, brace_pos)
             closer == IF opener = "{" THEN "}" ELSE ")"
         IN  IF char \in StringChars
             THEN IF At(source, p - 1) = "\\" THEN before
                  ELSE IF before.state = Normal THEN [before EXCEPT !.state = char]
                  ELSE IF before.state = char THEN [before EXCEPT !.state = Normal]
                  ELSE before
             ELSE IF before.state = Normal /\ char = opener
                  THEN [before EXCEPT !.depth = @ + 1]
             ELSE IF before.state = Normal /\ char = closer
                  THEN [before EXCEPT !.depth = @ - 1]
             ELSE before
\* the positions where the depth is zero
Closings(source, brace_pos) ==
    {p \in (brace_pos + 1)..(Len(source) - 1) : Scanner(source, brace_pos, p).depth = 0}
\* the call was started on an opening brace or parenthesis
OnOpener ==
    /\ js_call.brace_pos < Len(js_call.source)
    /\ At(js_call.source, js_call.brace_pos) \in {"{", "("}

\* C27: a call of _extract_block on an opener returns, and the block it
\* returns ends with the first character at which the depth is zero (with the
\* source when there is none), the depth changing on the opener and its closer
\* outside string literals only; for the arrow binding with a template literal
\* the block is the binding, without the statements around it.
C27_BlockEnds ==
    /\ [](js_call.pc = "done" /\ OnOpener =>
            LET closings == Closings(js_call.source, js_call.brace_pos)
                end == IF closings = {} THEN Len(js_call.source)
                       ELSE 1 + CHOOSE p \in closings : \A q \in closings : p <= q
            IN  /\ js_call.pos = end
                /\ \E lo \in 0..js_call.brace_pos :
                      js_call.code = Slice(js_call.source, lo, end)
                /\ js_call.source = ArrowSource => js_call.code = ArrowBinding)
    /\ (js_call.pc = "call" ~> js_call.pc = "done")

\* the block of the arrow binding has been returned
C27_Witness ==
    /\ js_call.pc = "done"
    /\ js_call.source = ArrowSource
    /\ js_call.brace_pos = ArrowBrace
    /\ js_call.code # <<>>

(***************************************************************************)
(* Restarts of the process (SpecLife).                                     *)
(***************************************************************************)
\* C29: whatever was indexed and cleared and however often the process was
\* shut down and started, while it runs with no call in progress every vector
\* has one metadata record with its id and every metadata record has a vector
\* with its embedding id.
C29_RestartKeepsIds ==
    (app.running /\ AllIdle) =>
        /\ VectorIds = MetadataIds
        /\ \A id \in MetadataIds : Cardinality(RowsOf(symbols_tbl, id)) = 1

(***************************************************************************)
(* A SearchEngine with a lexical index of its own (SpecOwn).               *)
(***************************************************************************)
\* C30: the lexical index of a SearchEngine that built its own holds, with no
\* call in progress, the embedding ids of the metadata store, each with the
\* symbol stored under it.
C30_OwnIndexFollows ==
    (own_text.built /\ AllIdle) =>
        /\ DOMAIN own_text.documents = MetadataIds
        /\ \A i \in 1..Len(symbols_tbl) :
              LET row == symbols_tbl[i]
                  doc == own_text.documents[row.embedding_id]
              IN  /\ doc.name = row.name
                  /\ doc.symbol_type = row.symbol_type
                  /\ doc.node = row.node
                  /\ doc.path = row.file_id
====
